---- MODULE Spec2Model ----
(***************************************************************************)
(* Model of the adaptive search-and-extraction loop of LondonLetAgent:     *)
(*   - BaseScraper.search_properties (the query refinement loop used by    *)
(*     the OpenRent and SpareRoom adapters),                               *)
(*   - GumtreeScraper.search_properties (the multi-page override),         *)
(*   - the three adapters' _check_search_outcome classifiers and           *)
(*     _parse_initial_listings extractors,                                 *)
(*   - AIModule.transform_initial_criteria / suggest_query_refinement as   *)
(*     seen from the loop (the LLM's answer is a nondeterministic input).  *)
(* One behaviour is one call of search_properties on one adapter.          *)
(***************************************************************************)
EXTENDS Integers, Sequences, FiniteSets, TLC

(***************************************************************************)
(* Bounds of the model (not program constants).                            *)
(***************************************************************************)
\* largest max_retries argument explored for the base loop
MaxRetries == 3
\* largest max_pages_to_scrape explored for the Gumtree adapter
MaxPageCap == 2
\* largest number of indicator elements of one kind on a page
MaxIndicators == 2
\* largest number of listing containers on a page
MaxItems == 2

(***************************************************************************)
(* Program constants.                                                      *)
(***************************************************************************)
\* search_properties(..., max_retries: int = 3) of the Gumtree override
DefaultMaxRetries == 3
\* max_nav_retries = 3 in GumtreeScraper.search_properties
max_nav_retries == 3

\* if 1 <= page_num <= 50 in _detect_total_pages
LinkNumberMax == 50

\* Python's None
Null == "None"

Adapters == {"OpenRent", "SpareRoom", "Gumtree"}
\* the adapters that inherit BaseScraper.search_properties
BaseAdapters == {"OpenRent", "SpareRoom"}

(***************************************************************************)
(* Mappings (Python dicts) are functions whose domain is a set of keys.    *)
(***************************************************************************)
EmptyDict == [k \in {} |-> Null]
\* dict.get(k)
Get(d, k) == IF k \in DOMAIN d THEN d[k] ELSE Null
\* d[k] = v
DictSet(d, k, v) == [x \in (DOMAIN d) \cup {k} |-> IF x = k THEN v ELSE d[x]]
\* del d[k]
DictDel(d, k) == [x \in (DOMAIN d) \ {k} |-> d[x]]
\* Python truthiness; every value of a mapping is written as a string
\* ("True" / "False" for booleans, decimal digits for numbers)
Truthy(v) == v \notin {Null, "False", "", "0"}

Range(s) == {s[i] : i \in 1..Len(s)}
SeqsUpTo(S, n) == UNION {[1..k -> S] : k \in 0..n}

(***************************************************************************)
(* A navigated results page as the browser primitives show it.             *)
(*   blockEls : visibility of each element carrying a blocking / CAPTCHA   *)
(*              signal, in DOM order (the elements the captcha_indicator   *)
(*              selector matches; their text is the body text Gumtree      *)
(*              scans for 'captcha' / 'blocked' / 'access denied')         *)
(*   zeroEls  : the same for the no-results signal                         *)
(*   items    : the listing containers, in DOM order                       *)
(*   title    : the class of the page title                                *)
(*   domFails : the DOM query primitives raise on this page                *)
(***************************************************************************)
Urls == {"u1", "u2"}
Posters == {"private", "agency"}
Titles == {"Results", "Error", "Not Found", "Problem finding"}

\* one listing container: its link href (or None), its first description
\* span, whether a price or title text is found in it, and its price
\* normalized to a month (0: no price element or no parsable amount)
Item(u, p, t, n) == [url |-> u, poster |-> p, text |-> t, price |-> n]

MkPage(b, z, it, t, f) ==
  [blockEls |-> b, zeroEls |-> z, items |-> it, title |-> t, domFails |-> f]

\* the selector set of an adapter: which of the three classification
\* selectors the configuration defines
MkSelectors(c, z, l) == [loaded |-> TRUE, captcha_indicator |-> c,
                         zero_results_indicator |-> z, listing_item_container |-> l]
\* self.selectors is None (the selector file could not be loaded)
NoSelectors == [loaded |-> FALSE, captcha_indicator |-> FALSE,
                zero_results_indicator |-> FALSE, listing_item_container |-> FALSE]
SelectorSets == {MkSelectors(c, z, l) : c \in BOOLEAN, z \in BOOLEAN, l \in BOOLEAN}
FullSelectors == MkSelectors(TRUE, TRUE, TRUE)
\* GumtreeScraper._get_default_selectors: no indicator selectors
GumtreeDefaultSelectors == MkSelectors(FALSE, FALSE, TRUE)

AnyVisible(els) == \E i \in 1..Len(els) : els[i]
\* page.is_visible(selector): the visibility of the first match
FirstVisible(els) == Len(els) > 0 /\ els[1]

(***************************************************************************)
(* The outcome classifiers.  The result is the outcome's status; "RAISE"   *)
(* stands for an exception leaving the classifier.                         *)
(***************************************************************************)
\* mutant: the title fallback never reports an error
OpenRentTitleErrorNever(t) == FALSE
OpenRentTitleError(t) == t \in {"Error", "Not Found"}
SpareRoomTitleError(t) == t \in {"Error", "Problem finding"}

OpenRentCheckSearchOutcome(sel, page) ==
  IF ~sel.loaded THEN "error"
  ELSE IF sel.captcha_indicator /\ ~page.domFails /\ AnyVisible(page.blockEls)
    THEN "captcha_detected"
  ELSE IF sel.zero_results_indicator /\ ~page.domFails /\ AnyVisible(page.zeroEls)
    THEN "zero_results"
  ELSE IF sel.listing_item_container /\ ~page.domFails
    THEN (IF Len(page.items) > 0 THEN "listings_found" ELSE "zero_results")
  ELSE IF OpenRentTitleError(page.title) THEN "error"
  ELSE "unknown"

SpareRoomCheckSearchOutcome(sel, page) ==
  IF ~sel.loaded THEN "error"
  ELSE IF page.domFails /\ (sel.captcha_indicator \/ sel.zero_results_indicator
                        \/ sel.listing_item_container)
    THEN "RAISE"
  ELSE IF sel.captcha_indicator /\ FirstVisible(page.blockEls)
    THEN "captcha_detected"
  ELSE IF sel.zero_results_indicator /\ FirstVisible(page.zeroEls)
    THEN "zero_results"
  ELSE IF ~sel.listing_item_container THEN "error"
  ELSE IF Len(page.items) > 0 THEN "listings_found"
  ELSE IF ~sel.zero_results_indicator \/ Len(page.zeroEls) = 0
    THEN "zero_results"
  ELSE IF SpareRoomTitleError(page.title) THEN "error"
  ELSE "unknown"

GumtreeCheckSearchOutcome(sel, page) ==
  IF page.domFails \/ ~sel.listing_item_container THEN "error"
  ELSE IF Len(page.items) > 0 THEN "listings_found"
  ELSE IF Len(page.blockEls) > 0 THEN "blocked"
  ELSE IF Len(page.zeroEls) > 0 THEN "zero_results"
  ELSE "unknown"

CheckSearchOutcome(site, sel, page) ==
  CASE site = "OpenRent" -> OpenRentCheckSearchOutcome(sel, page)
    [] site = "SpareRoom" -> SpareRoomCheckSearchOutcome(sel, page)
    [] OTHER -> GumtreeCheckSearchOutcome(sel, page)

(***************************************************************************)
(* The page extractors (_parse_initial_listings).  A record keeps the      *)
(* fields the loops and the filters read.                                  *)
(***************************************************************************)
Listing(it) == [url |-> it.url, poster |-> it.poster, price |-> it.price]

RECURSIVE SelectSeq2(_, _)
\* the sub-sequence of the items that satisfy Keep, as listing records
SelectSeq2(items, keep) ==
  IF Len(items) = 0 THEN <<>>
  ELSE IF keep[1] THEN <<Listing(Head(items))>> \o SelectSeq2(Tail(items), Tail(keep))
  ELSE SelectSeq2(Tail(items), Tail(keep))

\* OpenRent: a url and (a price text or a title)
OpenRentParseInitialListings(page) ==
  SelectSeq2(page.items,
             [i \in 1..Len(page.items) |-> page.items[i].url # Null /\ page.items[i].text])

\* SpareRoom: a url
SpareRoomParseInitialListings(page) ==
  SelectSeq2(page.items, [i \in 1..Len(page.items) |-> page.items[i].url # Null])

\* mutant: the extractor applies neither filter
GumtreeParseUnfiltered(sel, page, private_only_requested, current_price_max) ==
  IF ~sel.loaded \/ page.domFails \/ ~sel.listing_item_container THEN <<>>
  ELSE SelectSeq2(page.items,
         [i \in 1..Len(page.items) |-> page.items[i].url # Null])

\* Gumtree: a url, then the private_only and price_max filters; any
\* exception of the DOM queries yields the empty list
GumtreeParseInitialListings(sel, page, private_only_requested, current_price_max) ==
  IF ~sel.loaded \/ page.domFails \/ ~sel.listing_item_container THEN <<>>
  ELSE SelectSeq2(page.items,
         [i \in 1..Len(page.items) |->
            /\ page.items[i].url # Null
            /\ (private_only_requested => page.items[i].poster = "private")
            /\ ~(current_price_max > 0 /\ page.items[i].price > 0
                 /\ page.items[i].price > current_price_max)])

ParseInitialListings(site, page) ==
  IF site = "OpenRent" THEN OpenRentParseInitialListings(page)
  ELSE SpareRoomParseInitialListings(page)

RECURSIVE MergeByUrl(_, _)
\* base_scraper.py 123-125: append each listing whose url is not yet held
MergeByUrl(found, listings) ==
  IF Len(listings) = 0 THEN found
  ELSE MergeByUrl(
         IF \E i \in 1..Len(found) : found[i].url = Head(listings).url
           THEN found ELSE Append(found, Head(listings)),
         Tail(listings))

(***************************************************************************)
(* URL construction (_construct_search_url): the url is the record of the  *)
(* query-string parts the adapter derives from the parameters.             *)
(***************************************************************************)
ConstructSearchUrl(site, params, page_number) ==
  [site |-> site,
   location |-> IF site = "OpenRent"
                  THEN (IF "location" \in DOMAIN params THEN params["location"] ELSE "london")
                  ELSE (IF Truthy(Get(params, "location")) THEN params["location"] ELSE Null),
   price_max |-> Get(params, "price_max"),
   seller |-> IF site # "OpenRent" /\ Truthy(Get(params, "private_only"))
                THEN "private" ELSE Null,
   page |-> IF site = "Gumtree" /\ page_number > 1 THEN page_number ELSE 0]

\* the number a price parameter stands for (0: none)
PriceOf(v) == CASE v = "1000" -> 1000 [] v = "2000" -> 2000 [] OTHER -> 0

(***************************************************************************)
(* The advisory oracle (AIModule).  ai_module is "None" (no oracle         *)
(* object), "NoProfile" (an AIModule without a profile for the site) or    *)
(* "Ready".  What the LLM answers is an input.                             *)
(***************************************************************************)
\* {**a, **b}
Merge(a, b) == [k \in (DOMAIN a) \cup (DOMAIN b) |-> IF k \in DOMAIN b THEN b[k] ELSE a[k]]

\* a JSON object the LLM may answer to transform_initial_criteria
OptimizedParams == [k \in {"price_max"} |-> "2000"]
\* the LLM's answer to the transform prompt: no usable text (no client, API
\* error, not JSON), a JSON object, or JSON that is not an object
TransformAnswers == {"unusable", "object", "nonobject"}

\* mutant: the fallback hands back the caller's mapping, not a copy of it
TransformInitialCriteriaNoCopy(ai, user_criteria, answer) ==
  IF answer = "nonobject" /\ ai # "NoProfile"
    THEN [raises |-> TRUE, same_object |-> FALSE, params |-> user_criteria]
  ELSE IF answer = "object" /\ ai # "NoProfile"
    THEN [raises |-> FALSE, same_object |-> FALSE,
          params |-> Merge(user_criteria, OptimizedParams)]
  ELSE [raises |-> FALSE, same_object |-> TRUE, params |-> user_criteria]

\* AIModule.transform_initial_criteria: the mapping returned, whether it is
\* the caller's own mapping (no copy), and whether the call raises
TransformInitialCriteria(ai, user_criteria, answer) ==
  IF ai = "NoProfile"
    THEN [raises |-> FALSE, same_object |-> TRUE, params |-> user_criteria]
  ELSE IF answer = "object"
    THEN [raises |-> FALSE, same_object |-> FALSE,
          params |-> Merge(user_criteria, OptimizedParams)]
  ELSE IF answer = "nonobject"
    THEN [raises |-> TRUE, same_object |-> FALSE, params |-> user_criteria]
  ELSE [raises |-> FALSE, same_object |-> FALSE, params |-> user_criteria]

Sugg(a, p, v, f) ==
  [given |-> TRUE, action |-> a, parameter |-> p, new_value |-> v, filter_name |-> f]
\* suggest_query_refinement returned None
NoneSuggestion ==
  [given |-> FALSE, action |-> Null, parameter |-> Null, new_value |-> Null,
   filter_name |-> Null]
\* the LLM answered JSON that is not an object: the call, or the loop's
\* first .get on its result, raises
NonObjectAnswer == Sugg("<not an object>", Null, Null, Null)

ValidModify == Sugg("modify_parameter", "price_max", "2000", Null)
ContinuingSuggestions ==
  {ValidModify,
   Sugg("remove_filter", Null, Null, "price_max"),
   Sugg("remove_filter", Null, Null, Null)}
\* the answers on which the loop must stop without editing the parameters
StoppingSuggestions ==
  {NoneSuggestion,
   Sugg("stop_attempts", Null, Null, Null),
   Sugg("modify_parameter", Null, "2000", Null),
   Sugg("modify_parameter", "price_max", Null, Null),
   Sugg("widen_radius", Null, Null, Null)}
\* the two actions of the vocabulary the loop has no branch for
UnhandledVocabulary ==
  {Sugg("add_keyword", Null, Null, Null),
   Sugg("change_search_strategy", Null, Null, Null)}

\* mutant: an action the loop has no branch for lets the loop go on
ApplyRefinementLenient(params, s) ==
  IF s.given /\ s.action # "stop_attempts"
    THEN IF s.action = "modify_parameter" /\ Truthy(s.parameter) /\ s.new_value # Null
           THEN [go_on |-> TRUE, params |-> DictSet(params, s.parameter, s.new_value)]
         ELSE IF s.action = "remove_filter" /\ Truthy(s.filter_name)
                 /\ s.filter_name \in DOMAIN params
           THEN [go_on |-> TRUE, params |-> DictDel(params, s.filter_name)]
         ELSE [go_on |-> TRUE, params |-> params]
    ELSE [go_on |-> FALSE, params |-> params]

\* what suggest_query_refinement can hand back (or raise on)
OracleAnswers(ai) ==
  IF ai = "Ready"
    THEN ContinuingSuggestions \cup StoppingSuggestions \cup UnhandledVocabulary
         \cup {NonObjectAnswer}
    ELSE {NoneSuggestion}

\* base_scraper.py 143-167: whether the loop goes on, and the parameters
ApplyRefinement(params, s) ==
  IF s.given /\ s.action # "stop_attempts"
    THEN IF s.action = "modify_parameter"
           THEN IF Truthy(s.parameter) /\ s.new_value # Null
                  THEN [go_on |-> TRUE, params |-> DictSet(params, s.parameter, s.new_value)]
                  ELSE [go_on |-> FALSE, params |-> params]
         ELSE IF s.action = "remove_filter"
           THEN IF Truthy(s.filter_name) /\ s.filter_name \in DOMAIN params
                  THEN [go_on |-> TRUE, params |-> DictDel(params, s.filter_name)]
                  ELSE [go_on |-> TRUE, params |-> params]
         ELSE [go_on |-> FALSE, params |-> params]
    ELSE [go_on |-> FALSE, params |-> params]

\* mutant: the block branch tests "blocked" only
IsBlockedOnlyBlocked(status) == status = "blocked"
\* mutant: the loop runs one attempt more, range(max_retries + 1)
LoopContinuesOneMore(next_attempt, retries) == next_attempt <= retries
\* mutant: the oracle is consulted only when two attempts or more are left
AttemptsRemainTwo(att, retries) == att < retries - 2
\* mutant: the classified attempt is not appended to the history
RecordAttemptDropped(history, params, url, status) == history
\* base_scraper.py 119 and 130: the terminal outcomes
IsSuccess(status) == status \in {"success", "listings_found"}
IsBlocked(status) == status \in {"captcha_detected", "blocked"}
\* base_scraper.py 104: for attempt in range(max_retries)
LoopContinues(next_attempt, retries) == next_attempt < retries
\* base_scraper.py 135: if attempt < max_retries - 1
AttemptsRemain(att, retries) == att < retries - 1
\* base_scraper.py 89: the initialization guard
ProperlyInitialized(profile, sel, ai, bpage) ==
  profile /\ sel.loaded /\ ai # "None" /\ bpage = "open"
\* base_scraper.py 117: the entry appended for a classified attempt
HistoryEntry(params, url, status) == [params |-> params, url |-> url, outcome |-> status]
RecordAttempt(history, params, url, status) ==
  Append(history, HistoryEntry(params, url, status))

(***************************************************************************)
(* expand_location_to_postcodes (main.py).  A string is the sequence of    *)
(* its characters, so that lower(), strip(), startswith and the substring  *)
(* test are computed on its text.                                          *)
(***************************************************************************)
UpperLetters == <<"A", "B", "C", "D", "E", "F", "G", "H", "I", "J", "K", "L", "M",
                  "N", "O", "P", "Q", "R", "S", "T", "U", "V", "W", "X", "Y", "Z">>
LowerLetters == <<"a", "b", "c", "d", "e", "f", "g", "h", "i", "j", "k", "l", "m",
                  "n", "o", "p", "q", "r", "s", "t", "u", "v", "w", "x", "y", "z">>
DigitChars == <<"0", "1", "2", "3", "4", "5", "6", "7", "8", "9">>

SetMin(S) == CHOOSE x \in S : \A y \in S : x <= y
LowerChar(c) ==
  IF \E i \in 1..Len(UpperLetters) : UpperLetters[i] = c
    THEN LowerLetters[CHOOSE i \in 1..Len(UpperLetters) : UpperLetters[i] = c]
    ELSE c
\* str.lower()
Lower(s) == [i \in 1..Len(s) |-> LowerChar(s[i])]
\* str.strip(): the text between the first and the last character that is
\* not white space
Strip(s) ==
  LET inked == {i \in 1..Len(s) : s[i] # " "} IN
  IF inked = {} THEN <<>>
  ELSE SubSeq(s, SetMin(inked), CHOOSE x \in inked : \A y \in inked : y <= x)
\* s.startswith(p)
StartsWith(s, p) == Len(p) <= Len(s) /\ SubSeq(s, 1, Len(p)) = p
\* sub in s
Contains(s, sub) ==
  \E k \in 0..(Len(s) - Len(sub)) : SubSeq(s, k + 1, k + Len(sub)) = sub

\* the decimal digits of a postcode number below 100
Digits(n) ==
  IF n < 10 THEN <<DigitChars[n + 1]>>
  ELSE <<DigitChars[(n \div 10) + 1], DigitChars[(n % 10) + 1]>>
\* the prefixes letters+a .. letters+b, in order
Codes(letters, a, b) == [i \in 1..(b - a + 1) |-> letters \o Digits(a + i - 1)]

Space == <<" ">>
WordNorth == <<"n", "o", "r", "t", "h">>
WordSouth == <<"s", "o", "u", "t", "h">>
WordEast == <<"e", "a", "s", "t">>
WordWest == <<"w", "e", "s", "t">>
WordCentral == <<"c", "e", "n", "t", "r", "a", "l">>
WordLondon == <<"l", "o", "n", "d", "o", "n">>

\* main.py 126-145: the area table, in insertion order; a postcode prefix
\* is its letters followed by the digits of its number
london_areas ==
  << [area |-> WordNorth \o Space \o WordWest \o Space \o WordLondon,
      postcodes |-> Codes(<<"N", "W">>, 1, 11)],
     [area |-> WordNorth \o Space \o WordLondon,
      postcodes |-> Codes(<<"N">>, 1, 22)],
     [area |-> WordWest \o Space \o WordLondon,
      postcodes |-> Codes(<<"W">>, 1, 14)],
     [area |-> WordSouth \o Space \o WordWest \o Space \o WordLondon,
      postcodes |-> Codes(<<"S", "W">>, 1, 20)],
     [area |-> WordSouth \o Space \o WordEast \o Space \o WordLondon,
      postcodes |-> Codes(<<"S", "E">>, 1, 28)],
     [area |-> WordEast \o Space \o WordLondon,
      postcodes |-> Codes(<<"E">>, 1, 18) \o Codes(<<"E">>, 20, 20)],
     [area |-> WordCentral \o Space \o WordLondon,
      postcodes |-> Codes(<<"W">>, 1, 1) \o Codes(<<"W", "C">>, 1, 2)
                    \o Codes(<<"E", "C">>, 1, 4) \o Codes(<<"S", "W">>, 1, 1)],
     [area |-> <<"c", "a", "m", "d", "e", "n">>,
      postcodes |-> Codes(<<"N", "W">>, 1, 1) \o Codes(<<"N", "W">>, 3, 3)
                    \o Codes(<<"N", "W">>, 5, 5)],
     [area |-> <<"i", "s", "l", "i", "n", "g", "t", "o", "n">>,
      postcodes |-> Codes(<<"N">>, 1, 1) \o Codes(<<"N">>, 5, 5)
                    \o Codes(<<"N">>, 7, 7)],
     [area |-> <<"h", "a", "c", "k", "n", "e", "y">>,
      postcodes |-> Codes(<<"E">>, 2, 2) \o Codes(<<"E">>, 5, 5)
                    \o Codes(<<"E">>, 8, 9)],
     [area |-> <<"t", "o", "w", "e", "r">> \o Space \o <<"h", "a", "m", "l", "e", "t", "s">>,
      postcodes |-> Codes(<<"E">>, 1, 1) \o Codes(<<"E">>, 3, 3)
                    \o Codes(<<"E">>, 14, 14)],
     [area |-> <<"s", "o", "u", "t", "h", "w", "a", "r", "k">>,
      postcodes |-> Codes(<<"S", "E">>, 1, 1)
                    \o Codes(<<"S", "E">>, 15, 17)],
     [area |-> <<"l", "a", "m", "b", "e", "t", "h">>,
      postcodes |-> Codes(<<"S", "E">>, 11, 11)
                    \o Codes(<<"S", "E">>, 24, 24)
                    \o Codes(<<"S", "W">>, 2, 2) \o Codes(<<"S", "W">>, 4, 4)
                    \o Codes(<<"S", "W">>, 8, 9)],
     [area |-> <<"w", "a", "n", "d", "s", "w", "o", "r", "t", "h">>,
      postcodes |-> Codes(<<"S", "W">>, 11, 12)
                    \o Codes(<<"S", "W">>, 15, 15)
                    \o Codes(<<"S", "W">>, 17, 19)],
     [area |-> <<"h", "a", "m", "m", "e", "r", "s", "m", "i", "t", "h">>,
      postcodes |-> Codes(<<"W">>, 6, 6) \o Codes(<<"W">>, 12, 12)
                    \o Codes(<<"W">>, 14, 14)],
     [area |-> <<"k", "e", "n", "s", "i", "n", "g", "t", "o", "n">>,
      postcodes |-> Codes(<<"W">>, 8, 8) \o Codes(<<"W">>, 10, 11)
                    \o Codes(<<"S", "W">>, 3, 3) \o Codes(<<"S", "W">>, 5, 5)
                    \o Codes(<<"S", "W">>, 7, 7)],
     [area |-> <<"w", "e", "s", "t", "m", "i", "n", "s", "t", "e", "r">>,
      postcodes |-> Codes(<<"W">>, 1, 1) \o Codes(<<"S", "W">>, 1, 1)
                    \o Codes(<<"W", "C">>, 1, 2)] >>

\* main.py 151: the input starts with a postcode prefix of the table
IsSpecificPostcode(location_lower) ==
  \E r \in 1..Len(london_areas) :
    \E j \in 1..Len(london_areas[r].postcodes) :
      StartsWith(location_lower, Lower(london_areas[r].postcodes[j]))
\* main.py 157: the match test of one table entry
AreaMatches(location_lower, area) ==
  \/ location_lower = area
  \/ Contains(location_lower, area)
  \/ Contains(area, location_lower)

\* what ai_module offers for the expansion: no module ("absent"), a module
\* without an expand_location method ("no_method"), a call that raises
\* ("raises"), or the value returned ("returns"; <<>> also stands for None)
Expansion(kind, value) == [kind |-> kind, value |-> value]
NoExpandMethod == Expansion("no_method", <<>>)
\* mutant: one location is enough for the oracle's expansion to be used
OracleExpandsOne(exp) == exp.kind = "returns" /\ Len(exp.value) >= 1
\* main.py 162-169: the oracle's expansion is used
OracleExpands(exp) == exp.kind = "returns" /\ Len(exp.value) > 1

\* expand_location_to_postcodes
ExpandLocationToPostcodes(loc, exp) ==
  LET location_lower == Strip(Lower(loc))
      matching == {r \in 1..Len(london_areas) :
                     AreaMatches(location_lower, london_areas[r].area)}
  IN IF IsSpecificPostcode(location_lower) THEN <<loc>>
     ELSE IF matching # {} THEN london_areas[SetMin(matching)].postcodes
     ELSE IF OracleExpands(exp) THEN exp.value
     ELSE <<loc>>

(***************************************************************************)
(* State.                                                                  *)
(***************************************************************************)
VARIABLES
  \* the adapter object
  site_name, site_profile, selectors, ai_module, browser_page, context,
  max_pages_to_scrape,
  \* the call's arguments; user_criteria is the caller's mapping
  user_criteria, max_retries,
  \* position in search_properties
  pc,
  \* locals of BaseScraper.search_properties
  current_query_params, same_object, attempt, search_url, page, search_outcome,
  attempt_history, all_found_listings, refinement_suggestion,
  \* locals and attributes of GumtreeScraper.search_properties
  private_only_requested, current_price_max, total_pages, page_num, nav_attempt,
  all_listings, seen_urls,
  \* observation: goto calls made, refine calls made, the arguments of the
  \* last refine call, every answer of the oracle, the attempt the oracle
  \* was last consulted for
  navigations, oracle_calls, oracle_args, oracle_log, consulted_for,
  \* observation of the Gumtree search: the page number of every goto call
  \* in call order, the page number and record count of every extraction
  \* run, and what the discovery pass read on the first page
  visited, extracted, page_links,
  \* whether a delay (asyncio.sleep) has elapsed since the last goto call
  slept,
  \* run_agent_with_criteria and expand_location_to_postcodes: the location
  \* of the criteria, what the oracle offers for its expansion, the expanded
  \* locations, how many of them have been searched, and the three lists
  location, ai_expansion, expanded_locations, loc_done, all_site_listings,
  all_final_listings, unique_listings,
  \* the pages of the browser context that the adapter opened and that are
  \* not closed
  pages_open,
  \* FilteringModule.process_listings: its two arguments, the list it
  \* returns, and whether it raised
  input_listings, filter_criteria, processed_listings, filter_raised,
  \* price normalisation: the sign, amount, separator and unit a price text
  \* was written from, the text, what _normalize_price returns for it and what
  \* parse_price returns for it
  price_written, price_text, normalized_price, parsed_price,
  \* the command line: whether --location is given, the two price options,
  \* whether run_agent_with_criteria was invoked, whether the process has
  \* ended and its exit status
  location_given, price_min, price_max, agent_invoked, exited, exit_status

adapter_vars == <<site_name, site_profile, selectors, ai_module, context,
                  max_pages_to_scrape, max_retries>>
gumtree_vars == <<private_only_requested, current_price_max, total_pages, page_num,
                  nav_attempt, all_listings, seen_urls>>
base_vars == <<attempt, search_url, search_outcome, attempt_history,
               all_found_listings, refinement_suggestion>>
oracle_obs == <<oracle_calls, oracle_args, oracle_log, consulted_for>>
page_obs == <<visited, extracted, page_links, slept>>
run_vars == <<location, ai_expansion, expanded_locations, loc_done,
              all_site_listings, all_final_listings, unique_listings>>
agent_vars == <<run_vars, pages_open>>
filter_vars == <<input_listings, filter_criteria, processed_listings, filter_raised>>
\* the variables of the modules that no search and no run touches
price_vars == <<price_written, price_text, normalized_price, parsed_price>>
cli_vars == <<location_given, price_min, price_max, agent_invoked, exited, exit_status>>
side_vars == <<filter_vars, price_vars, cli_vars>>

vars == <<site_name, site_profile, selectors, ai_module, browser_page, context,
          max_pages_to_scrape, user_criteria, max_retries, pc,
          current_query_params, same_object, attempt, search_url, page,
          search_outcome, attempt_history, all_found_listings,
          refinement_suggestion, private_only_requested, current_price_max,
          total_pages, page_num, nav_attempt, all_listings, seen_urls,
          navigations, oracle_calls, oracle_args, oracle_log, consulted_for,
          visited, extracted, page_links, slept, location, ai_expansion,
          expanded_locations, loc_done, all_site_listings, all_final_listings,
          unique_listings, pages_open, input_listings, filter_criteria, processed_listings,
          filter_raised, price_written, price_text, normalized_price, parsed_price,
          location_given, price_min, price_max, agent_invoked, exited, exit_status>>

\* the caller's criteria: the empty mapping, or location / price_max /
\* private_only as UserCriteria.model_dump() gives them
Criteria(private) ==
  [k \in {"location", "price_max", "private_only"} |->
     CASE k = "location" -> "NW1" [] k = "price_max" -> "1000" [] OTHER -> private]
UserCriteriaSet == {EmptyDict, Criteria("True"), Criteria("False")}

(***************************************************************************)
(* The pages the searches meet.                                            *)
(***************************************************************************)
PrivateItem == Item("u1", "private", TRUE, 900)
AgencyItem == Item("u2", "agency", TRUE, 2500)
NoLinkItem == Item(Null, "private", TRUE, 900)
BarePage == MkPage(<<>>, <<>>, <<>>, "Results", FALSE)
LoopPages ==
  {BarePage,
   [BarePage EXCEPT !.blockEls = <<TRUE>>, !.items = <<PrivateItem>>],
   [BarePage EXCEPT !.blockEls = <<FALSE>>],
   [BarePage EXCEPT !.zeroEls = <<TRUE>>],
   [BarePage EXCEPT !.zeroEls = <<FALSE>>],
   [BarePage EXCEPT !.zeroEls = <<FALSE>>, !.title = "Error"],
   [BarePage EXCEPT !.items = <<PrivateItem, AgencyItem>>],
   [BarePage EXCEPT !.items = <<PrivateItem, PrivateItem>>],
   [BarePage EXCEPT !.items = <<AgencyItem, NoLinkItem>>],
   [BarePage EXCEPT !.domFails = TRUE],
   [BarePage EXCEPT !.domFails = TRUE, !.title = "Error"]}

\* what the discovery pass reads on the first page: the numbers in the
\* page= hrefs and the numbers that are the text of a link
HrefPageSets == {{}, {0}, {1, 2}, {MaxPageCap + 1}}
LinkNumberSets == {{}, {2}, {LinkNumberMax + 1}}
\* nothing read (the pass has not run, or it raised)
NoLinks == [loaded |-> FALSE, hrefs |-> {}, numbers |-> {}]

(***************************************************************************)
(* Init: an adapter after construction and initialize_browser, and the     *)
(* arguments of one search_properties call.  At most one part of a base    *)
(* adapter is missing.                                                     *)
(***************************************************************************)
BaseSetups ==
  {[profile |-> TRUE, sel |-> FullSelectors, ai |-> a, bpage |-> "open"] :
      a \in {"Ready", "NoProfile", "None"}}
  \cup {[profile |-> FALSE, sel |-> FullSelectors, ai |-> "Ready", bpage |-> "open"],
        [profile |-> TRUE, sel |-> NoSelectors, ai |-> "Ready", bpage |-> "open"],
        [profile |-> TRUE, sel |-> FullSelectors, ai |-> "Ready", bpage |-> "None"]}
\* the Gumtree adapter always holds a profile and selectors (built-in defaults)
GumtreeSetups ==
  {[profile |-> TRUE, sel |-> GumtreeDefaultSelectors, ai |-> a, bpage |-> b] :
      a \in {"Ready", "NoProfile", "None"}, b \in {"open", "None"}}

\* process_listings is not called
NoFilter ==
  /\ input_listings = <<>>
  /\ filter_criteria = [private_only |-> FALSE, exclude_agents |-> FALSE, keywords |-> <<>>]
  /\ processed_listings = <<>>
  /\ filter_raised = FALSE
\* a price result that is None
NonePrice == [given |-> FALSE, monthly_price |-> 0, period |-> Null, value |-> 0]
\* parse_price returned None
NoneParsed == [given |-> FALSE, units |-> 0, decimals |-> <<>>]
\* no price is normalised
NoPrice ==
  /\ price_written = [sign |-> <<>>, amount |-> 0, separator |-> FALSE, unit |-> <<>>]
  /\ price_text = <<>>
  /\ normalized_price = NonePrice
  /\ parsed_price = NoneParsed
\* an option of the command line that is not given (None)
NotGiven == [given |-> FALSE, value |-> 0]
\* no command line is read
NoCli ==
  /\ location_given = FALSE
  /\ price_min = NotGiven
  /\ price_max = NotGiven
  /\ agent_invoked = FALSE
  /\ exited = FALSE
  /\ exit_status = 0
NoSide == NoFilter /\ NoPrice /\ NoCli

\* no orchestrator around the call
NoAgent ==
  /\ location = <<>>
  /\ ai_expansion = NoExpandMethod
  /\ expanded_locations = <<>>
  /\ loc_done = 0
  /\ all_site_listings = <<>>
  /\ all_final_listings = <<>>
  /\ unique_listings = <<>>
  /\ pages_open = (IF browser_page = "open" THEN 1 ELSE 0)

\* the locals of search_properties before the call
SearchLocals ==
  /\ current_query_params = EmptyDict
  /\ same_object = FALSE
  /\ attempt = 0
  /\ search_url = ConstructSearchUrl(site_name, EmptyDict, 1)
  /\ page = <<>>
  /\ search_outcome = Null
  /\ attempt_history = <<>>
  /\ all_found_listings = <<>>
  /\ refinement_suggestion = NoneSuggestion
  /\ private_only_requested = FALSE
  /\ current_price_max = 0
  /\ total_pages = 0
  /\ page_num = 0
  /\ nav_attempt = 0
  /\ all_listings = <<>>
  /\ seen_urls = {}
  /\ navigations = 0
  /\ oracle_calls = 0
  /\ oracle_args = <<>>
  /\ oracle_log = <<>>
  /\ consulted_for = -1
  /\ visited = <<>>
  /\ slept = FALSE
  /\ extracted = <<>>
  /\ page_links = NoLinks

InitLocals ==
  /\ pc = "start"
  /\ SearchLocals

Init ==
  /\ site_name \in Adapters
  /\ \E su \in (IF site_name = "Gumtree" THEN GumtreeSetups ELSE BaseSetups) :
        /\ site_profile = su.profile
        /\ selectors = su.sel
        /\ ai_module = su.ai
        /\ browser_page = su.bpage
  /\ context \in BOOLEAN
  /\ (site_name # "Gumtree" => context)
  /\ max_retries \in (IF site_name = "Gumtree" THEN {DefaultMaxRetries} ELSE 0..MaxRetries)
  /\ max_pages_to_scrape \in (IF site_name = "Gumtree" THEN 1..MaxPageCap ELSE {0})
  /\ user_criteria \in UserCriteriaSet
  /\ InitLocals
  /\ NoAgent
  /\ NoSide

(***************************************************************************)
(* BaseScraper.search_properties                                           *)
(***************************************************************************)
\* where the for loop goes after attempt att has ended without a break
AfterAttempt(att, retries) ==
  IF LoopContinues(att + 1, retries) THEN "navigate" ELSE "finished"

\* lines 89-102: the initialization guard and the initial transformation
BaseStart ==
  /\ pc = "start"
  /\ site_name \in BaseAdapters
  /\ \E answer \in TransformAnswers :
       LET t == TransformInitialCriteria(ai_module, user_criteria, answer) IN
       IF ~ProperlyInitialized(site_profile, selectors, ai_module, browser_page)
         THEN /\ pc' = "returned_uninit"
              /\ UNCHANGED <<current_query_params, same_object>>
         ELSE IF t.raises
           THEN /\ pc' = "raised"
                /\ UNCHANGED <<current_query_params, same_object>>
           ELSE /\ current_query_params' = t.params
                /\ same_object' = t.same_object
                /\ pc' = IF t.params = EmptyDict THEN "returned_notransform"
                         ELSE IF LoopContinues(0, max_retries) THEN "navigate"
                         ELSE "finished"
  /\ UNCHANGED <<adapter_vars, browser_page, user_criteria, base_vars, page,
                 gumtree_vars, navigations, oracle_obs,
                 page_obs, agent_vars, side_vars>>

\* lines 171-175: the except branch of an attempt
HandleAttemptException(url) ==
  /\ attempt_history' =
       RecordAttempt(attempt_history, current_query_params, url, "error")
  /\ attempt' = attempt + 1
  /\ pc' = AfterAttempt(attempt, max_retries)

\* lines 105-112: build the url, goto, obstacles, content
Navigate ==
  /\ pc = "navigate"
  /\ site_name \in BaseAdapters
  /\ search_url' = ConstructSearchUrl(site_name, current_query_params, 1)
  /\ navigations' = navigations + 1
  /\ \E loaded \in BOOLEAN, pg \in LoopPages :
       IF loaded
         THEN /\ page' = <<pg>>
              /\ pc' = "classify"
              /\ UNCHANGED <<attempt, attempt_history>>
         ELSE /\ pg = BarePage
              /\ page' = <<>>
              /\ HandleAttemptException(
                   ConstructSearchUrl(site_name, current_query_params, 1))
  /\ UNCHANGED <<adapter_vars, browser_page, user_criteria, current_query_params,
                 same_object, search_outcome, all_found_listings,
                 refinement_suggestion, gumtree_vars, oracle_obs,
                 page_obs, agent_vars, side_vars>>

\* lines 115-135 and 168-169: classify, append to the history, branch
Classify ==
  /\ pc = "classify"
  /\ site_name \in BaseAdapters
  /\ LET status == CheckSearchOutcome(site_name, selectors, page[1]) IN
       IF status = "RAISE"
         THEN /\ HandleAttemptException(search_url)
              /\ UNCHANGED search_outcome
         ELSE /\ search_outcome' = status
              /\ attempt_history' =
                   RecordAttempt(attempt_history, current_query_params, search_url, status)
              /\ IF IsSuccess(status)
                   THEN pc' = "parse" /\ UNCHANGED attempt
                 ELSE IF IsBlocked(status)
                   THEN pc' = "finished" /\ UNCHANGED attempt
                 ELSE IF AttemptsRemain(attempt, max_retries)
                   THEN pc' = "consult" /\ UNCHANGED attempt
                 ELSE /\ attempt' = attempt + 1
                      /\ pc' = AfterAttempt(attempt, max_retries)
  /\ UNCHANGED <<adapter_vars, browser_page, user_criteria, current_query_params,
                 same_object, search_url, page, all_found_listings,
                 refinement_suggestion, gumtree_vars, navigations, oracle_obs,
                 page_obs, agent_vars, side_vars>>

\* lines 120-128: extract, merge by url, break; the extractor's unguarded
\* DOM queries may raise
ParseListings ==
  /\ pc = "parse"
  /\ site_name \in BaseAdapters
  /\ \E parse_raises \in BOOLEAN :
       IF parse_raises
         THEN /\ HandleAttemptException(search_url)
              /\ UNCHANGED all_found_listings
         ELSE /\ all_found_listings' =
                   MergeByUrl(all_found_listings, ParseInitialListings(site_name, page[1]))
              /\ pc' = "finished"
              /\ UNCHANGED <<attempt, attempt_history>>
  /\ UNCHANGED <<adapter_vars, browser_page, user_criteria, current_query_params,
                 same_object, search_url, page, search_outcome,
                 refinement_suggestion, gumtree_vars, navigations, oracle_obs,
                 page_obs, agent_vars, side_vars>>

\* lines 137-142: the refine call
ConsultOracle ==
  /\ pc = "consult"
  /\ site_name \in BaseAdapters
  /\ oracle_calls' = oracle_calls + 1
  /\ consulted_for' = attempt
  /\ oracle_args' = <<[site |-> site_name, params |-> current_query_params,
                       outcome |-> search_outcome, history |-> attempt_history]>>
  /\ \E answer \in OracleAnswers(ai_module) :
       /\ oracle_log' = Append(oracle_log, answer)
       /\ IF answer = NonObjectAnswer
            THEN /\ HandleAttemptException(search_url)
                 /\ UNCHANGED refinement_suggestion
            ELSE /\ refinement_suggestion' = answer
                 /\ pc' = "apply"
                 /\ UNCHANGED <<attempt, attempt_history>>
  /\ UNCHANGED <<adapter_vars, browser_page, user_criteria, current_query_params,
                 same_object, search_url, page, search_outcome,
                 all_found_listings, gumtree_vars, navigations,
                 page_obs, agent_vars, side_vars>>

\* mutant: the entries hold the parameter mapping itself, not a copy, so
\* an edit shows in every entry
HistoryAfterEditAliased(history, params) ==
  [i \in 1..Len(history) |-> [history[i] EXCEPT !.params = params]]
\* lines 117 and 173 store current_query_params.copy(): an edit of the
\* parameters (152, 159) leaves the entries as they are
HistoryAfterEdit(history, params) == history

\* lines 143-167: apply the suggestion or stop
ApplySuggestion ==
  /\ pc = "apply"
  /\ site_name \in BaseAdapters
  /\ LET r == ApplyRefinement(current_query_params, refinement_suggestion) IN
       IF r.go_on
         THEN /\ current_query_params' = r.params
              /\ user_criteria' = IF same_object THEN r.params ELSE user_criteria
              /\ attempt_history' = HistoryAfterEdit(attempt_history, r.params)
              /\ attempt' = attempt + 1
              /\ pc' = AfterAttempt(attempt, max_retries)
         ELSE /\ pc' = "finished"
              /\ UNCHANGED <<current_query_params, user_criteria, attempt,
                             attempt_history>>
  /\ UNCHANGED <<adapter_vars, browser_page, same_object, search_url, page,
                 search_outcome, all_found_listings,
                 refinement_suggestion, gumtree_vars, navigations, oracle_obs,
                 page_obs, agent_vars, side_vars>>

BaseNext == BaseStart \/ Navigate \/ Classify \/ ParseListings \/ ConsultOracle
            \/ ApplySuggestion

(***************************************************************************)
(* GumtreeScraper.search_properties                                        *)
(***************************************************************************)
\* mutant: a blocked page does not end the pagination
StopsPaginationNever(status) == FALSE
\* mutant: an empty page does not end the pagination
StopOnEmptyPageNever(page_listings) == FALSE
\* gumtree_scraper.py 449: the outcome that ends the pagination
StopsPagination(status) == status = "blocked"
\* gumtree_scraper.py 468: the page whose extraction ends the pagination
StopOnEmptyPage(page_listings) == Len(page_listings) = 0
\* mutant: the page loop runs one page past the bound, range(1, total_pages + 2)
PageLoopOnePastBound(next_page, total) == next_page <= total + 1
\* gumtree_scraper.py 426: for page_num in range(1, total_pages + 1)
PageLoopContinues(next_page, total) == next_page <= total
\* mutant: the page loop does not advance
NextPageSame(num) == num
\* the page number the loop takes after page num
NextPage(num) == num + 1
AfterPage(num, total) ==
  IF PageLoopContinues(NextPage(num), total) THEN "g_navigate" ELSE "finished"

\* mutant: without an oracle no parameters are produced
GumtreeInitialParamsNeedsOracle(ai, criteria, answer) ==
  IF ai # "None" THEN TransformInitialCriteria(ai, criteria, answer)
  ELSE [raises |-> FALSE, same_object |-> FALSE, params |-> EmptyDict]

\* mutant: no listing of a page is added to the result
AddUniqueNothing(listings, seen, page_listings) == [listings |-> listings, seen |-> seen]

\* gumtree_scraper.py 396-401: the oracle's transformation, or the
\* criteria themselves when there is no oracle
GumtreeInitialParams(ai, criteria, answer) ==
  IF ai # "None" THEN TransformInitialCriteria(ai, criteria, answer)
  ELSE [raises |-> FALSE, same_object |-> TRUE, params |-> criteria]

\* mutant: the detected page number is not capped
TotalPagesUncapped(max_page, cap) == max_page
\* gumtree_scraper.py 372: the page bound of the discovery pass
TotalPages(max_page, cap) == IF max_page < cap THEN max_page ELSE cap

SetMax(S) == CHOOSE x \in S : \A y \in S : y <= x
\* gumtree_scraper.py 351-370: the largest page number read from the
\* page= hrefs and from the numbered links between 1 and 50, at least 1
DetectedMaxPage(hrefs, numbers) ==
  SetMax({1} \cup hrefs \cup {n \in numbers : 1 <= n /\ n <= LinkNumberMax})
\* _detect_total_pages: the bound returned; 1 when the pass raises
DetectTotalPagesResult(loaded, hrefs, numbers, cap) ==
  IF loaded THEN TotalPages(DetectedMaxPage(hrefs, numbers), cap) ELSE 1

RECURSIVE AddUnique(_, _, _)
\* gumtree_scraper.py 459-463: the listings and urls after one page
AddUnique(listings, seen, page_listings) ==
  IF Len(page_listings) = 0 THEN [listings |-> listings, seen |-> seen]
  ELSE LET l == Head(page_listings) IN
       IF l.url # Null /\ l.url \notin seen
         THEN AddUnique(Append(listings, l), seen \cup {l.url}, Tail(page_listings))
         ELSE AddUnique(listings, seen, Tail(page_listings))

\* what initialize_browser ends with: a page and its handle, a page whose
\* handle is dropped (new_page succeeds, set_extra_http_headers raises), or
\* no page (new_page raises)
InitOutcomes == {"opened", "dropped", "no_page"}
\* gumtree_scraper.py 96-115: the handle kept and the adapter's open pages
\* after initialize_browser, n pages being open before
InitializeBrowserResult(outcome, n) ==
  [browser_page |-> IF outcome = "opened" THEN "open" ELSE "None",
   pages_open |-> IF outcome = "no_page" THEN n ELSE n + 1]

\* lines 387-423: open the page if needed, initial parameters, price cap,
\* first page url
GumtreeStart ==
  /\ pc = "start"
  /\ site_name = "Gumtree"
  /\ \E outcome \in InitOutcomes, answer \in TransformAnswers :
       LET t == GumtreeInitialParams(ai_module, user_criteria, answer)
           ib == IF browser_page = "open"
                   THEN [browser_page |-> browser_page, pages_open |-> pages_open]
                   ELSE InitializeBrowserResult(outcome, pages_open)
       IN
       IF browser_page # "open" /\ ~context
         THEN /\ pc' = "raised"
              /\ UNCHANGED <<browser_page, pages_open, current_query_params, same_object,
                             current_price_max, private_only_requested, search_url>>
       ELSE IF ib.browser_page # "open"
         THEN /\ pc' = "returned_uninit"
              /\ browser_page' = ib.browser_page
              /\ pages_open' = ib.pages_open
              /\ UNCHANGED <<current_query_params, same_object,
                             current_price_max, private_only_requested, search_url>>
       ELSE IF t.raises
         THEN /\ pc' = "raised"
              /\ browser_page' = ib.browser_page
              /\ pages_open' = ib.pages_open
              /\ UNCHANGED <<current_query_params, same_object,
                             current_price_max, private_only_requested, search_url>>
       ELSE IF t.params = EmptyDict
         THEN /\ pc' = "returned_notransform"
              /\ browser_page' = ib.browser_page
              /\ pages_open' = ib.pages_open
              /\ current_query_params' = t.params
              /\ same_object' = t.same_object
              /\ UNCHANGED <<current_price_max, private_only_requested, search_url>>
       ELSE /\ pc' = "detect"
            /\ browser_page' = ib.browser_page
            /\ pages_open' = ib.pages_open
            /\ current_query_params' = t.params
            /\ same_object' = t.same_object
            /\ current_price_max' =
                 PriceOf(IF Truthy(Get(t.params, "price_max"))
                           THEN t.params["price_max"]
                           ELSE Get(user_criteria, "price_max"))
            /\ private_only_requested' = Truthy(Get(t.params, "private_only"))
            /\ search_url' = ConstructSearchUrl(site_name, t.params, 1)
  /\ UNCHANGED <<adapter_vars, user_criteria, attempt, page, search_outcome,
                 attempt_history, all_found_listings, refinement_suggestion,
                 total_pages, page_num, nav_attempt, all_listings, seen_urls,
                 navigations, oracle_obs,
                 page_obs, run_vars, side_vars>>

\* _detect_total_pages (345-378) and the head of the page loop (426)
DetectTotalPages ==
  /\ pc = "detect"
  /\ navigations' = navigations + 1
  /\ visited' = Append(visited, 1)
  /\ UNCHANGED extracted
  /\ \E loaded \in BOOLEAN, hrefs \in HrefPageSets, numbers \in LinkNumberSets :
       /\ (~loaded => hrefs = {} /\ numbers = {})
       \* the goto raised (no delay), or _handle_site_obstacles slept (291)
       \* and a later DOM query raised
       /\ slept' \in (IF loaded THEN {TRUE} ELSE BOOLEAN)
       /\ page_links' = [loaded |-> loaded, hrefs |-> hrefs, numbers |-> numbers]
       /\ total_pages' = DetectTotalPagesResult(loaded, hrefs, numbers,
                                                max_pages_to_scrape)
  /\ page_num' = 1
  /\ nav_attempt' = 0
  /\ pc' = IF PageLoopContinues(1, total_pages') THEN "g_navigate" ELSE "finished"
  /\ UNCHANGED <<adapter_vars, browser_page, user_criteria, current_query_params,
                 same_object, base_vars, page, private_only_requested,
                 current_price_max, all_listings, seen_urls, oracle_obs, agent_vars, side_vars>>

\* mutant: a failed goto is retried at once
BackoffSkipped == FALSE
\* line 441: the sleep after a failed goto that is not the last one
BackoffSleeps == TRUE

\* lines 428-441 and 475-477: one goto of the page's retry loop
GumtreeNavigate ==
  /\ pc = "g_navigate"
  /\ search_url' = ConstructSearchUrl(site_name, current_query_params, page_num)
  /\ navigations' = navigations + 1
  /\ visited' = Append(visited, page_num)
  /\ UNCHANGED <<extracted, page_links>>
  /\ \E loaded \in BOOLEAN, pg \in LoopPages :
       IF loaded
         THEN /\ page' = <<pg>>
              /\ pc' = "g_classify"
              /\ slept' = FALSE
              /\ UNCHANGED <<page_num, nav_attempt>>
         ELSE /\ pg = BarePage
              /\ page' = <<>>
              /\ IF nav_attempt = max_nav_retries - 1
                   THEN /\ page_num' = NextPage(page_num)
                        /\ nav_attempt' = 0
                        /\ slept' = FALSE
                        /\ pc' = AfterPage(page_num, total_pages)
                   ELSE /\ nav_attempt' = nav_attempt + 1
                        /\ slept' = BackoffSleeps
                        /\ UNCHANGED <<page_num, pc>>
  /\ UNCHANGED <<adapter_vars, browser_page, user_criteria, current_query_params,
                 same_object, attempt, search_outcome, attempt_history,
                 all_found_listings, refinement_suggestion, private_only_requested,
                 current_price_max, total_pages, all_listings, seen_urls, oracle_obs, agent_vars, side_vars>>

\* lines 443-451: obstacles, classify, stop when blocked
GumtreeClassify ==
  /\ pc = "g_classify"
  /\ search_outcome' = GumtreeCheckSearchOutcome(selectors, page[1])
  /\ pc' = IF StopsPagination(search_outcome') THEN "finished" ELSE "g_parse"
  \* _handle_site_obstacles sleeps first (291)
  /\ slept' = TRUE
  /\ UNCHANGED <<adapter_vars, browser_page, user_criteria, current_query_params,
                 same_object, attempt, search_url, page, attempt_history,
                 all_found_listings, refinement_suggestion, gumtree_vars,
                 navigations, oracle_obs,
                 visited, extracted, page_links, agent_vars, side_vars>>

\* lines 453-477: content, extract, add the new urls, stop on an empty
\* page, else the next page; page.content() may raise
GumtreeParse ==
  /\ pc = "g_parse"
  /\ \E content_raises \in BOOLEAN :
       LET page_listings == GumtreeParseInitialListings(
                              selectors, page[1], private_only_requested,
                              current_price_max)
           merged == AddUnique(all_listings, seen_urls, page_listings)
       IN IF content_raises
            THEN /\ pc' = AfterPage(page_num, total_pages)
                 /\ page_num' = NextPage(page_num)
                 /\ UNCHANGED <<all_listings, seen_urls, extracted>>
            ELSE /\ all_listings' = merged.listings
                 /\ extracted' = Append(extracted, [page |-> page_num,
                                                    count |-> Len(page_listings)])
                 /\ seen_urls' = merged.seen
                 /\ IF StopOnEmptyPage(page_listings)
                      THEN pc' = "finished" /\ UNCHANGED page_num
                      ELSE /\ pc' = AfterPage(page_num, total_pages)
                           /\ page_num' = NextPage(page_num)
  /\ nav_attempt' = 0
  /\ UNCHANGED <<adapter_vars, browser_page, user_criteria, current_query_params,
                 same_object, base_vars, page, private_only_requested,
                 current_price_max, total_pages, navigations, oracle_obs,
                 visited, page_links, slept, agent_vars, side_vars>>

GumtreeNext == GumtreeStart \/ DetectTotalPages \/ GumtreeNavigate \/ GumtreeClassify
               \/ GumtreeParse

Next == BaseNext \/ GumtreeNext
Spec == Init /\ [][Next]_vars

(***************************************************************************)
(* The classifiers alone: every adapter, every selector set, every page    *)
(* within the bounds.                                                      *)
(***************************************************************************)
Pages ==
  {MkPage(b, z, it, t, f) :
     b \in SeqsUpTo(BOOLEAN, MaxIndicators), z \in SeqsUpTo(BOOLEAN, MaxIndicators),
     it \in SeqsUpTo({PrivateItem}, MaxItems), t \in Titles, f \in BOOLEAN}

InitClassify ==
  /\ site_name \in Adapters
  /\ site_profile = TRUE
  /\ selectors \in SelectorSets
  /\ ai_module = "Ready"
  /\ browser_page = "open"
  /\ context = TRUE
  /\ max_retries = DefaultMaxRetries
  /\ max_pages_to_scrape = 1
  /\ user_criteria = Criteria("False")
  /\ InitLocals
  /\ NoAgent
  /\ NoSide

\* one call of _check_search_outcome on a freshly loaded page
ClassifyPage ==
  /\ pc = "start"
  /\ \E pg \in Pages :
       /\ page' = <<pg>>
       /\ search_outcome' = CheckSearchOutcome(site_name, selectors, pg)
  /\ pc' = "classified"
  /\ UNCHANGED <<adapter_vars, browser_page, user_criteria, current_query_params,
                 same_object, attempt, search_url, attempt_history,
                 all_found_listings, refinement_suggestion, gumtree_vars,
                 navigations, oracle_obs,
                 page_obs, agent_vars, side_vars>>

NextClassify == ClassifyPage
SpecClassify == InitClassify /\ [][NextClassify]_vars

(***************************************************************************)
(* Claims.                                                                 *)
(***************************************************************************)
Last(q) == q[Len(q)]
BaseLoop == site_name \in BaseAdapters
AllZeroResults == \A i \in 1..Len(attempt_history) : attempt_history[i].outcome = "zero_results"
AllValidModify == \A i \in 1..Len(oracle_log) : oracle_log[i] = ValidModify

\* C1: in BaseScraper.search_properties the number of navigations never
\* exceeds max_retries, whatever the classifier and the oracle answer; and
\* when every attempt classified zero_results and every oracle answer was a
\* valid modify_parameter, the finished loop has made exactly max_retries
\* attempts.
C1_RefinementBound ==
  BaseLoop =>
    /\ navigations <= max_retries
    /\ (pc = "finished" /\ AllZeroResults /\ AllValidModify
          => navigations = max_retries /\ Len(attempt_history) = max_retries)
\* the loop ended after three zero_results attempts and two valid edits
C1_Witness ==
  /\ BaseLoop /\ pc = "finished" /\ max_retries = 3 /\ navigations = 3
  /\ Len(attempt_history) = 3 /\ AllZeroResults
  /\ Len(oracle_log) = 2 /\ AllValidModify

\* C2: in BaseScraper.search_properties, once the outcome of an attempt is
\* blocked or captcha_detected the loop has ended, the oracle was not
\* consulted for that attempt, and no navigation or oracle call follows,
\* whatever budget is left.
C2_BlockedIsTerminal ==
  /\ [](BaseLoop /\ search_outcome \in {"blocked", "captcha_detected"}
          => pc = "finished" /\ consulted_for < attempt)
  /\ [][BaseLoop /\ search_outcome \in {"blocked", "captcha_detected"}
          => /\ navigations' = navigations
             /\ oracle_calls' = oracle_calls
             /\ pc' = "finished"]_vars
\* a CAPTCHA on the first attempt with two attempts left
C2_Witness ==
  /\ BaseLoop /\ search_outcome = "captcha_detected" /\ pc = "finished"
  /\ attempt = 0 /\ max_retries = 3 /\ navigations = 1

\* C3: in BaseScraper.search_properties an attempt whose outcome is
\* listings_found or success is the last attempt: no oracle call and no
\* navigation follows it.
C3_SuccessIsLast ==
  [][BaseLoop /\ search_outcome \in {"success", "listings_found"}
       => navigations' = navigations /\ oracle_calls' = oracle_calls]_vars

Refinable == {"zero_results", "error", "unknown"}

C5_HistoryBeforeOracle ==
  BaseLoop =>
    /\ (pc = "consult" =>
          /\ Len(attempt_history) > 0
          /\ Last(attempt_history) =
               [params |-> current_query_params, url |-> search_url,
                outcome |-> search_outcome])
    /\ (pc = "apply" =>
          /\ oracle_args[1].history = attempt_history
          /\ Len(attempt_history) > 0
          /\ Last(oracle_args[1].history) =
               [params |-> oracle_args[1].params, url |-> search_url,
                outcome |-> oracle_args[1].outcome]
          /\ oracle_args[1].outcome = search_outcome)
\* the second oracle call, made about the second attempt
C5_Witness ==
  /\ BaseLoop /\ pc = "apply" /\ oracle_calls = 2 /\ attempt = 1
  /\ Len(oracle_args[1].history) = 2
  /\ oracle_args[1].history[2].outcome = "zero_results"
  /\ oracle_args[1].history[2].params # oracle_args[1].history[1].params

\* C6: in BaseScraper.search_properties, when the oracle returns nothing,
\* stop_attempts, a modify_parameter without the parameter name or without the
\* new value, or an action outside the vocabulary, the loop stops: the
\* parameters are not edited, and the ended loop takes no further step.
C6_StopOnUnusableSuggestion ==
  /\ [][BaseLoop /\ pc = "apply" /\ refinement_suggestion \in StoppingSuggestions
          => /\ pc' = "finished"
             /\ current_query_params' = current_query_params
             /\ navigations' = navigations]_vars
  /\ [][~(BaseLoop /\ pc = "finished")]_vars
\* the loop ended on a modify_parameter without a value, two attempts unused
C6_Witness ==
  /\ BaseLoop /\ pc = "finished" /\ max_retries = 3 /\ navigations = 1
  /\ search_outcome = "zero_results" /\ oracle_calls = 1
  /\ refinement_suggestion = Sugg("modify_parameter", "price_max", Null, Null)

\* C7: each action of the oracle vocabulary is recognized by the loop: when
\* the oracle returns add_keyword or change_search_strategy (as with
\* modify_parameter or remove_filter) and attempts remain, the loop goes on to
\* another search attempt.
C7_VocabularyRecognized ==
  [][BaseLoop /\ pc = "apply"
       /\ refinement_suggestion \in ContinuingSuggestions \cup UnhandledVocabulary
       => pc' = "navigate"]_vars

NoOracle == ai_module = "None"
EndedBeforeSearch == pc \in {"returned_uninit", "returned_notransform", "raised"}
\* C8 (as stated): for every adapter that is otherwise ready, with no oracle
\* the raw criteria are the query parameters, the search is not given up
\* before searching, and it makes at least one navigation.
C8_PassThroughEveryAdapter ==
  NoOracle /\ site_profile /\ selectors.loaded /\ browser_page = "open"
    /\ user_criteria # EmptyDict /\ pc # "start"
    => /\ current_query_params = user_criteria
       /\ ~EndedBeforeSearch
       /\ (pc # "detect" => navigations >= 1)
\* C8 (amended): with no oracle the Gumtree adapter uses the raw criteria
\* unchanged and goes on to navigate; the OpenRent and SpareRoom adapters
\* return empty at the initialization check without navigating; and a search
\* that returns empty at the initial transformation has empty parameters.
C8_PassThroughGumtreeOnly ==
  /\ (site_name = "Gumtree" /\ NoOracle /\ browser_page = "open"
        /\ user_criteria # EmptyDict /\ pc # "start"
        => /\ current_query_params = user_criteria
           /\ ~EndedBeforeSearch
           /\ (pc # "detect" => navigations >= 1))
  /\ (BaseLoop /\ NoOracle /\ pc # "start"
        => pc = "returned_uninit" /\ navigations = 0)
  /\ (pc = "returned_notransform"
        => current_query_params = EmptyDict /\ navigations = 0)
\* a Gumtree search without oracle that collected a listing with the raw
\* criteria
C8_Witness ==
  /\ site_name = "Gumtree" /\ NoOracle /\ pc = "finished"
  /\ user_criteria = Criteria("True") /\ current_query_params = user_criteria
  /\ navigations >= 2 /\ Len(all_listings) >= 1

\* C9: for every adapter's classifier, a page with a visible blocking
\* indicator and one or more listing containers classifies as blocked or
\* captcha_detected, never as listings_found.
C9_BlockingBeforeListings ==
  pc = "classified" /\ ~page[1].domFails /\ AnyVisible(page[1].blockEls)
    /\ Len(page[1].items) >= 1
    /\ selectors.listing_item_container
    /\ (site_name # "Gumtree" => selectors.captcha_indicator)
    => search_outcome \in {"blocked", "captcha_detected"}

\* C10: for every adapter's classifier, with no visible blocking indicator and
\* no visible no-results indicator, a configured listing selector that
\* matches nothing gives zero_results, also when a no-results indicator is in
\* the DOM but hidden.
C10_EmptyIsZeroResults ==
  pc = "classified" /\ ~page[1].domFails /\ ~AnyVisible(page[1].blockEls)
    /\ ~AnyVisible(page[1].zeroEls) /\ selectors.listing_item_container
    /\ Len(page[1].items) = 0
    => search_outcome = "zero_results"

\* a classified page on which no indicator element is visible and whose
\* listing-container selector is not configured
ListingSelectorMissing ==
  /\ pc = "classified" /\ ~page[1].domFails /\ selectors.loaded
  /\ ~selectors.listing_item_container
  /\ ~AnyVisible(page[1].blockEls) /\ ~AnyVisible(page[1].zeroEls)

GumtreeSearch == site_name = "Gumtree"

\* C12: in GumtreeScraper.search_properties the pagination stops at the first
\* page whose extraction yields no record: that extraction is the last one,
\* the search has ended, and no page with a higher number was or is navigated,
\* even when the detected bound is larger.
C12_StopAtFirstEmptyPage ==
  GumtreeSearch =>
    \A i \in 1..Len(extracted) :
      extracted[i].count = 0 =>
        /\ i = Len(extracted)
        /\ pc = "finished"
        /\ \A j \in 1..Len(visited) : visited[j] <= extracted[i].page
\* bound 2, page 1 has containers but every record is filtered out: the
\* search ended without page 2
C12_Witness ==
  /\ GumtreeSearch /\ pc = "finished" /\ total_pages = 2
  /\ extracted = <<[page |-> 1, count |-> 0]>>
  /\ Len(page[1].items) = 2 /\ visited = <<1, 1>>

\* C13: in GumtreeScraper.search_properties, when the classifier returns
\* blocked on page k the search has ended: no extraction has run on page k
\* and no page greater than k was or is navigated.
C13_BlockedStopsPagination ==
  GumtreeSearch /\ search_outcome = "blocked" =>
    /\ pc = "finished"
    /\ \A i \in 1..Len(extracted) : extracted[i].page < page_num
    /\ \A j \in 1..Len(visited) : visited[j] <= page_num
\* blocked on page 1 of 2
C13_Witness ==
  /\ GumtreeSearch /\ search_outcome = "blocked" /\ pc = "finished"
  /\ page_num = 1 /\ total_pages = 2 /\ extracted = <<>>

EndedBlocked == pc = "finished" /\ search_outcome \in {"blocked", "captcha_detected"}

\* C14 (as stated): whenever a search ends because of a blocked outcome the
\* caller receives no listing, in the base refinement loop and in the Gumtree
\* pagination blocked on any page k >= 1.
C14_BlockedReturnsNothing ==
  EndedBlocked => all_found_listings = <<>> /\ all_listings = <<>>
\* C14 (amended): a base refinement loop that ends blocked returns no listing;
\* a Gumtree pagination blocked on page k returns the listings collected on
\* the pages before k, which is no listing when k = 1 or when those pages
\* yielded no record.
C14_BlockedReturnsEarlierPages ==
  EndedBlocked =>
    /\ (BaseLoop => all_found_listings = <<>>)
    /\ (GumtreeSearch =>
          /\ \A i \in 1..Len(extracted) : extracted[i].page < page_num
          /\ (all_listings # <<>> <=> \E i \in 1..Len(extracted) : extracted[i].count > 0)
          /\ (page_num = 1 => all_listings = <<>>))
\* Gumtree blocked on page 2 after page 1 gave two records of one url
C14_Witness ==
  /\ GumtreeSearch /\ EndedBlocked /\ page_num = 2
  /\ extracted = <<[page |-> 1, count |-> 2]>> /\ Len(all_listings) = 1

\* C15: in the Gumtree adapter (max_pages_to_scrape >= 1) the bound returned
\* by _detect_total_pages lies between 1 and max_pages_to_scrape, is 1 when
\* the discovery pass found no pagination link or number or failed, and
\* search_properties never navigates to a page number above the bound.
C15_PageBound ==
  GumtreeSearch /\ Len(visited) >= 1 =>
    /\ 1 <= total_pages /\ total_pages <= max_pages_to_scrape
    /\ (~page_links.loaded \/ (page_links.hrefs = {} /\ page_links.numbers = {})
          => total_pages = 1)
    /\ \A j \in 1..Len(visited) : 1 <= visited[j] /\ visited[j] <= total_pages
\* the first page links to a page above the cap of 2: the bound is 2 and
\* page 2 is the last page navigated
C15_Witness ==
  /\ GumtreeSearch /\ pc = "finished" /\ max_pages_to_scrape = 2
  /\ page_links.loaded
  /\ DetectedMaxPage(page_links.hrefs, page_links.numbers) > 2
  /\ total_pages = 2 /\ Last(visited) = 2

Ascending(q) == \A i, j \in 1..Len(q) : i < j => q[i] < q[j]
NonDecreasing(q) == \A i, j \in 1..Len(q) : i < j => q[i] <= q[j]
TimesVisited(n) == Cardinality({j \in 1..Len(visited) : visited[j] = n})
ExtractedPages == [i \in 1..Len(extracted) |-> extracted[i].page]
\* a goto of the base loop starts attempt number `attempt`: every earlier
\* attempt has made its goto and left its outcome in the history
AttemptsSequential ==
  [][BaseLoop /\ navigations' = navigations + 1
       => /\ pc = "navigate"
          /\ navigations = attempt
          /\ Len(attempt_history) >= attempt]_vars

\* C16 (as stated): within one search the page numbers the adapter navigates
\* to are strictly ascending, no page number being navigated twice, and a
\* refinement attempt never starts before the previous one is classified.
C16_StrictlyAscendingPages ==
  /\ [](GumtreeSearch => Ascending(visited))
  /\ AttemptsSequential
\* C16 (amended): the page numbers navigated never decrease; page 1 is
\* loaded once by the discovery pass and again by the page loop, and a failed
\* goto is repeated up to max_nav_retries times in all; extraction runs at
\* most once per page number, in strictly ascending order; an attempt of the
\* refinement loop starts only after the previous attempt has ended with its
\* outcome in the history.
C16_AscendingWithRepeats ==
  /\ [](GumtreeSearch =>
          /\ NonDecreasing(visited)
          /\ Ascending(ExtractedPages)
          /\ \A n \in 1..(MaxPageCap + 1) :
               TimesVisited(n) <= (IF n = 1 THEN 1 + max_nav_retries
                                   ELSE max_nav_retries))
  /\ AttemptsSequential
\* page 1 loaded by the discovery pass, a failed goto, the goto that
\* succeeded, then page 2; both pages extracted
C16_Witness ==
  /\ GumtreeSearch /\ visited = <<1, 1, 1, 2>>
  /\ ExtractedPages = <<1, 2>>

(***************************************************************************)
(* expand_location_to_postcodes alone: every input location of the set     *)
(* below, every behaviour of the oracle.                                   *)
(***************************************************************************)
search_vars == <<adapter_vars, browser_page, user_criteria, current_query_params,
                 same_object, base_vars, page, gumtree_vars, navigations,
                 oracle_obs, page_obs>>

\* the table's keys as they are, one key with capitals and white space
\* around it, a key inside a longer text, postcodes, and texts with and
\* without a part in common with a key
LocationInputs ==
  {london_areas[r].area : r \in 1..Len(london_areas)}
  \cup {Space \o <<"W", "e", "s", "t">> \o Space \o <<"L", "o", "n", "d", "o", "n">> \o Space,
        <<"C", "a", "m", "d", "e", "n">> \o Space \o <<"T", "o", "w", "n">>,
        <<"N", "W", "1">>,
        <<"n", "w", "1", "0">> \o Space \o <<"5", "a", "b">>,
        <<>>,
        <<"P", "a", "r", "i", "s">>,
        WordLondon,
        <<"E">>}
ExpansionOracles ==
  {Expansion("absent", <<>>), NoExpandMethod, Expansion("raises", <<>>),
   Expansion("returns", <<>>),
   Expansion("returns", << <<"S", "E", "1">> >>),
   Expansion("returns", << <<"S", "E", "1">>, <<"S", "E", "2">> >>)}

\* the adapter run_agent_with_criteria builds, before any search
AgentAdapter ==
  /\ site_name = "Gumtree"
  /\ site_profile = TRUE
  /\ selectors = GumtreeDefaultSelectors
  /\ context = TRUE
  /\ max_retries = DefaultMaxRetries
  /\ SearchLocals

InitExpand ==
  /\ AgentAdapter
  /\ ai_module = "Ready"
  /\ browser_page = "open"
  /\ max_pages_to_scrape = 1
  /\ user_criteria = Criteria("False")
  /\ pc = "o_expand"
  /\ location \in LocationInputs
  /\ ai_expansion \in ExpansionOracles
  /\ expanded_locations = <<>>
  /\ loc_done = 0
  /\ all_site_listings = <<>>
  /\ all_final_listings = <<>>
  /\ unique_listings = <<>>
  /\ pages_open = 1
  /\ NoSide

\* main.py 57: the call of expand_location_to_postcodes
ExpandLocation ==
  /\ pc = "o_expand"
  /\ expanded_locations' = ExpandLocationToPostcodes(location, ai_expansion)
  /\ pc' = "o_search"
  /\ UNCHANGED <<search_vars, location, ai_expansion, loc_done, all_site_listings,
                 all_final_listings, unique_listings, pages_open, side_vars>>

NextExpand == ExpandLocation
SpecExpand == InitExpand /\ [][NextExpand]_vars

Expanded == pc = "o_search" /\ loc_done = 0
\* C19: in expand_location_to_postcodes an exact match comes before substring
\* containment: an input equal (trimmed, case-insensitive) to a key of the
\* area table expands to that key's own postcode list, whatever earlier
\* entries contain it or are contained in it.
C19_ExactMatchFirst ==
  Expanded =>
    \A r \in 1..Len(london_areas) :
      Strip(Lower(location)) = london_areas[r].area
        => expanded_locations = london_areas[r].postcodes

NoTableMatch ==
  \A r \in 1..Len(london_areas) :
    ~AreaMatches(Strip(Lower(location)), london_areas[r].area)
NoOracleExpansion ==
  \/ ai_expansion.kind \in {"absent", "no_method", "raises"}
  \/ Len(ai_expansion.value) < 2
\* C20: expand_location_to_postcodes always returns a non-empty list; when
\* the input matches no table entry and the oracle offers no expansion
\* (absent, failing, fewer than two locations) the result is the one-element
\* list of the input unchanged.
C20_ExpansionNeverEmpty ==
  Expanded =>
    /\ Len(expanded_locations) >= 1
    /\ (NoTableMatch /\ NoOracleExpansion => expanded_locations = <<location>>)
\* "Paris" with an oracle that returns one location only
C20_Witness ==
  /\ Expanded /\ location = <<"P", "a", "r", "i", "s">>
  /\ ai_expansion = Expansion("returns", << <<"S", "E", "1">> >>)
  /\ NoTableMatch /\ expanded_locations = <<location>>

(***************************************************************************)
(* The orchestrator's merge (main.py 90-94):                               *)
(*   {listing.get("url"): listing for listing in all_final_listings        *)
(*    if listing.get("url")}.values()                                      *)
(* A dict keeps a key at the position of its first insertion and the value *)
(* of its last.                                                            *)
(***************************************************************************)
\* the positions at which a non-empty url is seen for the first time
FirstSeen(q) ==
  {i \in 1..Len(q) : Truthy(q[i].url) /\ \A j \in 1..(i - 1) : q[j].url # q[i].url}
\* the k-th smallest element of a set of numbers
NthOf(S, k) == CHOOSE i \in S : Cardinality({j \in S : j <= i}) = k
\* the last record of q that has url u
LastSeen(q, u) ==
  q[CHOOSE i \in 1..Len(q) : q[i].url = u /\ \A j \in (i + 1)..Len(q) : q[j].url # u]
\* mutant: the values come out in the reverse of the insertion order
UniqueByUrlReversed(q) ==
  LET F == FirstSeen(q) n == Cardinality(FirstSeen(q)) IN
  [k \in 1..n |-> LastSeen(q, q[NthOf(F, n + 1 - k)].url)]
\* mutant: every record is kept
UniqueByUrlKeepAll(q) == q
UniqueByUrl(q) ==
  LET F == FirstSeen(q) IN
  [k \in 1..Cardinality(F) |-> LastSeen(q, q[NthOf(F, k)].url)]

\* largest list handed to the merge
MaxListLen == 3
\* listing records as the merge sees them: two urls, the two empty urls,
\* two prices to tell records of one url apart
MergeRecords ==
  {[url |-> u, poster |-> "private", price |-> n] :
     u \in {"u1", "u2", Null, ""}, n \in {900, 950}}

\* main.py 90-102: deduplicate and hand the list to the output writer, or
\* report that nothing was found
Deduplicate ==
  /\ pc = "o_dedup"
  /\ IF all_final_listings # <<>>
       THEN /\ unique_listings' = UniqueByUrl(all_final_listings)
            /\ pc' = "o_saved"
       ELSE /\ pc' = "o_nothing"
            /\ UNCHANGED unique_listings
  /\ UNCHANGED <<search_vars, location, ai_expansion, expanded_locations, loc_done,
                 all_site_listings, all_final_listings, pages_open, side_vars>>

\* the merge alone, on every list within the bound
InitMerge ==
  /\ AgentAdapter
  /\ ai_module = "Ready"
  /\ browser_page = "open"
  /\ max_pages_to_scrape = 1
  /\ user_criteria = Criteria("False")
  /\ pc = "o_dedup"
  /\ location = <<>>
  /\ ai_expansion = NoExpandMethod
  /\ expanded_locations = <<>>
  /\ loc_done = 0
  /\ all_site_listings = <<>>
  /\ all_final_listings \in SeqsUpTo(MergeRecords, MaxListLen)
  /\ unique_listings = <<>>
  /\ pages_open = 1
  /\ NoSide

NextMerge == Deduplicate
SpecMerge == InitMerge /\ [][NextMerge]_vars

\* C18: the orchestrator's URL-keyed merge is idempotent: merging its own
\* result again gives the same records in the same order.
C18_MergeIdempotent ==
  pc = "o_saved" => UniqueByUrl(unique_listings) = unique_listings
\* the first url seen again after the second, at another price: the merge
\* keeps two records, the first url's last record in first place
C18_Witness ==
  /\ pc = "o_saved" /\ Len(all_final_listings) = 3
  /\ all_final_listings[1].url = "u1" /\ all_final_listings[1].price = 900
  /\ all_final_listings[2].url = "u2"
  /\ all_final_listings[3].url = "u1" /\ all_final_listings[3].price = 950
  /\ Len(unique_listings) = 2 /\ unique_listings[1] = all_final_listings[3]

(***************************************************************************)
(* run_agent_with_criteria: the Gumtree adapter, one search_properties     *)
(* call per expanded location, the merge.                                  *)
(***************************************************************************)
\* the locations of a run: a postcode, which stays as it is, and an area
\* that the table expands to three postcodes
AgentLocations ==
  {<<"N", "W", "1">>,
   <<"C", "a", "m", "d", "e", "n">> \o Space \o <<"T", "o", "w", "n">>}

\* main.py 47-52: the adapter as constructed, its AIModule holding a
\* Gumtree profile; AIModule() has no expand_location method;
\* max_pages_to_scrape is set to 15, here to the largest cap explored
\* the criteria ask for private landlords only
InitAgent ==
  /\ AgentAdapter
  /\ ai_module = "Ready"
  /\ browser_page = "None"
  /\ pages_open = 0
  /\ NoSide
  /\ max_pages_to_scrape = MaxPageCap
  /\ user_criteria = Criteria("True")
  /\ pc = "o_init"
  /\ location \in AgentLocations
  /\ ai_expansion = NoExpandMethod
  /\ expanded_locations = <<>>
  /\ loc_done = 0
  /\ all_site_listings = <<>>
  /\ all_final_listings = <<>>
  /\ unique_listings = <<>>

\* main.py 54: initialize_browser on the shared context
InitializeBrowser ==
  /\ pc = "o_init"
  /\ \E outcome \in InitOutcomes :
       LET ib == InitializeBrowserResult(outcome, pages_open) IN
       /\ browser_page' = ib.browser_page
       /\ pages_open' = ib.pages_open
  /\ pc' = "o_expand"
  /\ UNCHANGED <<adapter_vars, user_criteria, current_query_params, same_object,
                 base_vars, page, gumtree_vars, navigations, oracle_obs, page_obs,
                 run_vars, side_vars>>

\* main.py 62-70: the criteria with the next location, and the call of
\* search_properties
StartLocationSearch ==
  /\ pc = "o_search"
  /\ loc_done < Len(expanded_locations)
  /\ user_criteria' =
       DictSet(user_criteria, "location", ToString(expanded_locations[loc_done + 1]))
  /\ pc' = "start"
  /\ UNCHANGED <<adapter_vars, browser_page, current_query_params, same_object,
                 base_vars, page, gumtree_vars, navigations, oracle_obs, page_obs,
                 agent_vars, side_vars>>

\* main.py 70-77: search_properties has returned or raised (its locals are
\* gone, the adapter's attributes stay); the list returned is added to
\* all_site_listings; after the last location all_final_listings takes them
\* all; an exception of a search leaves the try block before that
CollectLocationResult ==
  /\ pc \in {"finished", "returned_uninit", "returned_notransform", "raised"}
  /\ IF pc = "raised"
       THEN /\ pc' = "o_close"
            /\ UNCHANGED <<loc_done, all_site_listings, all_final_listings>>
       ELSE /\ loc_done' = loc_done + 1
            /\ all_site_listings' =
                 all_site_listings \o (IF pc = "finished" THEN all_listings ELSE <<>>)
            /\ IF loc_done' < Len(expanded_locations)
                 THEN pc' = "o_search" /\ UNCHANGED all_final_listings
                 ELSE pc' = "o_close" /\ all_final_listings' = all_site_listings'
  /\ current_query_params' = EmptyDict
  /\ same_object' = FALSE
  /\ search_url' = ConstructSearchUrl(site_name, EmptyDict, 1)
  /\ page' = <<>>
  /\ search_outcome' = Null
  /\ total_pages' = 0
  /\ page_num' = 0
  /\ nav_attempt' = 0
  /\ all_listings' = <<>>
  /\ seen_urls' = {}
  /\ navigations' = 0
  /\ visited' = <<>>
  /\ slept' = FALSE
  /\ extracted' = <<>>
  /\ page_links' = NoLinks
  /\ UNCHANGED <<adapter_vars, browser_page, user_criteria, attempt, attempt_history,
                 all_found_listings, refinement_suggestion, private_only_requested,
                 current_price_max, oracle_obs, location, ai_expansion,
                 expanded_locations, unique_listings, pages_open, side_vars>>

\* whether the handle's page closes when close() asks for it (page.close()
\* may raise)
CloseOutcomes == {"closed", "close_raises"}
\* gumtree_scraper.py 487-495 at main.py 81-83: close the page the handle
\* names; the handle is reset only when page.close() returns
Close ==
  /\ pc = "o_close"
  /\ \E outcome \in CloseOutcomes :
       IF browser_page = "open" /\ outcome = "closed"
         THEN browser_page' = "None" /\ pages_open' = pages_open - 1
         ELSE UNCHANGED <<browser_page, pages_open>>
  /\ pc' = "o_context"
  /\ UNCHANGED <<adapter_vars, user_criteria, current_query_params, same_object,
                 base_vars, page, gumtree_vars, navigations, oracle_obs, page_obs,
                 run_vars, side_vars>>

\* main.py 86-87: closing the context and the browser closes every page
\* that is still open
CloseContext ==
  /\ pc = "o_context"
  /\ pages_open' = 0
  /\ pc' = "o_dedup"
  /\ UNCHANGED <<search_vars, run_vars, side_vars>>


NextAgent == InitializeBrowser \/ ExpandLocation \/ StartLocationSearch \/ GumtreeNext
             \/ CollectLocationResult \/ Close \/ CloseContext \/ Deduplicate
SpecAgent == InitAgent /\ [][NextAgent]_vars

\* no two records of a list share a url
DistinctUrls(q) == \A i, j \in 1..Len(q) : q[i].url = q[j].url => i = j
\* the number of records of a list that have url u
Occurrences(q, u) == Cardinality({i \in 1..Len(q) : q[i].url = u})

RunEnded == pc \in {"o_saved", "o_nothing"}

\* C21: a search that raises for one expanded location does not abort the
\* searches of the remaining locations (at the end of the run at most the
\* failed location is missing from the locations searched to their end),
\* and the listings earlier locations returned are merged and handed to the
\* output writer.
C21_FailureKeepsSiblings ==
  RunEnded =>
    /\ loc_done >= Len(expanded_locations) - 1
    /\ all_site_listings # <<>> =>
         /\ pc = "o_saved"
         /\ \A i \in 1..Len(all_site_listings) :
              Occurrences(unique_listings, all_site_listings[i].url) = 1

\* C22: every page the adapter opened is closed when the run of the
\* orchestrator has ended, the adapter never has more than one page open,
\* and it never holds no handle while a page it opened is still open.
C22_PagesReleased ==
  /\ RunEnded => pages_open = 0
  /\ pages_open <= 1
  /\ browser_page = "None" => pages_open = 0

\* C23: end to end, for a search of NW1 that asks for private landlords
\* only, the records handed to the output writer are private ones, each
\* carries is_private_landlord_guess = true, and none is agent-flagged.
C23_EndToEndPrivateOnly ==
  (pc = "o_saved" /\ location = <<"N", "W", "1">>
     /\ Truthy(Get(user_criteria, "private_only"))) =>
    \A i \in 1..Len(unique_listings) :
      /\ unique_listings[i].poster = "private"
      /\ Get(unique_listings[i], "is_private_landlord_guess") = "True"
      /\ Get(unique_listings[i], "is_agent_flagged") # "True"

(***************************************************************************)
(* FilteringModule.process_listings.  A text is a sequence of characters;  *)
(* a field of a listing is absent, None or a text.                         *)
(***************************************************************************)
Absent == [kind |-> "absent", text |-> <<>>]
NoneValue == [kind |-> "none", text |-> <<>>]
Text(s) == [kind |-> "str", text |-> s]
\* listing.get(k, ""): the default only for an absent key
GetOrEmpty(field) == IF field.kind = "absent" THEN Text(<<>>) ELSE field

\* filtering_module.py 9-14
AGENT_INDICATIVE_KEYWORDS ==
  << <<"l", "e", "t", "t", "i", "n", "g", "s">>,
     <<"e", "s", "t", "a", "t", "e", " ", "a", "g", "e", "n", "t">>,
     <<"e", "s", "t", "a", "t", "e", "s">>,
     <<"p", "r", "o", "p", "e", "r", "t", "y", " ", "m", "a", "n", "a", "g", "e", "m", "e", "n", "t">>,
     <<"p", "r", "o", "p", "e", "r", "t", "i", "e", "s">>,
     <<"m", "a", "n", "a", "g", "e", "m", "e", "n", "t", " ", "s", "e", "r", "v", "i", "c", "e", "s">>,
     <<"l", "e", "t", "t", "i", "n", "g", "s", " ", "n", "e", "g", "o", "t", "i", "a", "t", "o", "r">>,
     <<"l", "e", "t", "t", "i", "n", "g", "s", " ", "m", "a", "n", "a", "g", "e", "r">>,
     <<"r", "e", "a", "l", " ", "e", "s", "t", "a", "t", "e">>,
     <<"r", "e", "a", "l", "t", "y">>,
     <<"a", "s", "s", "o", "c", "i", "a", "t", "e", "s">>,
     <<"p", "a", "r", "t", "n", "e", "r", "s">>,
     <<"g", "r", "o", "u", "p">>,
     <<"l", "i", "m", "i", "t", "e", "d">>,
     <<"l", "t", "d">>,
     <<"p", "l", "c">>,
     <<"d", "e", "v", "e", "l", "o", "p", "m", "e", "n", "t", "s">>,
     <<"i", "n", "v", "e", "s", "t", "m", "e", "n", "t", "s">>,
     <<"l", "e", "t", "t", "i", "n", "g", "s", " ", "c", "o">>,
     <<"p", "r", "o", "p", "e", "r", "t", "y", " ", "c", "o">>,
     <<"h", "o", "u", "s", "i", "n", "g", " ", "a", "s", "s", "o", "c", "i", "a", "t", "i", "o", "n">> >>
\* the alternatives of the pattern \b(?:lettings|estates|properties|management)\b
AgentWords ==
  << <<"l", "e", "t", "t", "i", "n", "g", "s">>,
     <<"e", "s", "t", "a", "t", "e", "s">>,
     <<"p", "r", "o", "p", "e", "r", "t", "i", "e", "s">>,
     <<"m", "a", "n", "a", "g", "e", "m", "e", "n", "t">> >>
\* \w
IsWordChar(c) ==
  \/ \E i \in 1..Len(LowerLetters) : LowerLetters[i] = c \/ UpperLetters[i] = c
  \/ \E i \in 1..Len(DigitChars) : DigitChars[i] = c
  \/ c = "_"
\* re.search of \bw\b in s, for a word w of word characters
ContainsWord(s, w) ==
  \E k \in 0..(Len(s) - Len(w)) :
    /\ SubSeq(s, k + 1, k + Len(w)) = w
    /\ (k > 0 => ~IsWordChar(s[k]))
    /\ (k + Len(w) < Len(s) => ~IsWordChar(s[k + Len(w) + 1]))

\* _is_likely_agent_by_text (34-44)
IsLikelyAgentByText(field) ==
  IF field.kind # "str" \/ field.text = <<>> THEN FALSE
  ELSE LET text_lower == Lower(field.text) IN
       \/ \E i \in 1..Len(AGENT_INDICATIVE_KEYWORDS) :
            Contains(text_lower, AGENT_INDICATIVE_KEYWORDS[i])
       \/ \E i \in 1..Len(AgentWords) : ContainsWord(text_lower, AgentWords[i])

\* a listing as the filter reads it
FilterListing(u, adv, name, title, site) ==
  [url |-> u, advertiser_type_snippet |-> adv, poster_name_snippet |-> name,
   title_snippet |-> title, source_site |-> site]
\* lines 88-90, 112-121: the copy of a listing with its two flags
WithFlags(l, guess, flagged) ==
  [url |-> l.url, advertiser_type_snippet |-> l.advertiser_type_snippet,
   poster_name_snippet |-> l.poster_name_snippet, title_snippet |-> l.title_snippet,
   source_site |-> l.source_site,
   is_private_landlord_guess |-> guess, is_agent_flagged |-> flagged]
\* the listing a returned record was copied from
WithoutFlags(r) ==
  FilterListing(r.url, r.advertiser_type_snippet, r.poster_name_snippet,
                r.title_snippet, r.source_site)

\* lines 95-99: what the advertiser type says
AgentBySnippet(s) == Contains(s, <<"a", "g", "e", "n", "t">>) \/ Contains(s, <<"a", "g", "e", "n", "c", "y">>)
PrivateBySnippet(s) ==
  ~AgentBySnippet(s) /\ (Contains(s, <<"l", "a", "n", "d", "l", "o", "r", "d">>) \/ Contains(s, <<"p", "r", "i", "v", "a", "t", "e", " ", "a", "d", "v", "e", "r", "t", "i", "s", "e", "r">>))

\* _matches_keywords (46-75): a keyword in the title, else the answer of the
\* semantic check when the module has an oracle ("none": it has not)
MatchesKeywords(listing, keywords, semantic) ==
  IF keywords = <<>> THEN TRUE
  ELSE LET text_to_search == Lower(GetOrEmpty(listing.title_snippet).text) IN
       IF \E i \in 1..Len(keywords) : Contains(text_to_search, Lower(keywords[i]))
         THEN TRUE
         ELSE semantic = "YES"

\* mutant: only the listings the scraper fields call an agent are dropped
\* for private_only
KeepsUnlessAgent(crit, is_agent_by_scraper, guess, flagged) ==
  ~(is_agent_by_scraper /\ crit.private_only)
\* mutant: exclude_agents drops nothing
KeepsAgents(crit, is_agent_by_scraper, guess, flagged) ==
  IF is_agent_by_scraper /\ crit.private_only THEN FALSE
  ELSE ~(crit.private_only /\ ~guess)
\* lines 111-142: the continues of the private / agent logic
Keeps(crit, is_agent_by_scraper, guess, flagged) ==
  IF is_agent_by_scraper /\ crit.private_only THEN FALSE
  ELSE IF crit.private_only /\ ~guess THEN FALSE
  ELSE IF crit.exclude_agents /\ flagged /\ ~guess /\ ~crit.private_only
    THEN FALSE
  ELSE TRUE

\* lines 87-148: one turn of the loop: whether it raises (.lower() of an
\* advertiser type or a title that is None), whether the listing is
\* appended, and the record appended
ProcessOne(listing, crit, semantic) ==
  LET adv == GetOrEmpty(listing.advertiser_type_snippet)
      snippet == Lower(adv.text)
      is_agent_by_scraper ==
        AgentBySnippet(snippet) \/ IsLikelyAgentByText(GetOrEmpty(listing.poster_name_snippet))
      is_private_by_scraper == PrivateBySnippet(snippet)
      guess == IF is_agent_by_scraper THEN FALSE
               ELSE IF is_private_by_scraper THEN TRUE
               ELSE listing.source_site = "OpenRent"
      flagged == is_agent_by_scraper
      keep ==
        IF crit.keywords # <<>> /\ ~MatchesKeywords(listing, crit.keywords, semantic)
          THEN FALSE
        ELSE Keeps(crit, is_agent_by_scraper, guess, flagged)
  IN
  IF adv.kind = "none"
       \/ (crit.keywords # <<>> /\ listing.title_snippet.kind = "none")
    THEN [raises |-> TRUE, keep |-> FALSE, listing |-> WithFlags(listing, FALSE, FALSE)]
    ELSE [raises |-> FALSE, keep |-> keep, listing |-> WithFlags(listing, guess, flagged)]

RECURSIVE ProcessListings(_, _, _, _)
\* process_listings (77-150): the list returned, or that the call raised;
\* semantic[i] is what the semantic check answers for the i-th listing
ProcessListings(lst, crit, semantic, done) ==
  IF Len(lst) = 0 THEN [raises |-> FALSE, listings |-> done]
  ELSE LET r == ProcessOne(Head(lst), crit, Head(semantic)) IN
       IF r.raises THEN [raises |-> TRUE, listings |-> <<>>]
       ELSE ProcessListings(Tail(lst), crit, Tail(semantic),
                            IF r.keep THEN Append(done, r.listing) ELSE done)

\* the listings the filter is given: an agent by type and name, a private
\* advertiser, a private advertiser with a company's name, a company's name
\* alone, a name matched by the word pattern only, an OpenRent listing
\* without signals, a Gumtree listing without signals, Gumtree's poster type
\* "Private", and an advertiser type that is None
FilterListings ==
  {FilterListing("u1", Text(<<"A", "g", "e", "n", "t">>), Text(<<"X", "Y", "Z", " ", "L", "e", "t", "t", "i", "n", "g", "s", " ", "L", "t", "d">>), Text(<<"F", "l", "a", "t">>), "SpareRoom"),
   FilterListing("u2", Text(<<"P", "r", "i", "v", "a", "t", "e", " ", "a", "d", "v", "e", "r", "t", "i", "s", "e", "r">>), Text(<<"J", "o", "h", "n", " ", "D", "o", "e">>), Text(<<"F", "l", "a", "t", " ", "w", "i", "t", "h", " ", "G", "a", "r", "d", "e", "n">>), "SpareRoom"),
   FilterListing("u3", Text(<<"P", "r", "i", "v", "a", "t", "e", " ", "a", "d", "v", "e", "r", "t", "i", "s", "e", "r">>), Text(<<"Q", "u", "i", "c", "k", " ", "P", "r", "o", "p", "e", "r", "t", "i", "e", "s">>), Text(<<"F", "l", "a", "t">>), "Gumtree"),
   FilterListing("u4", Absent, Text(<<"Q", "u", "i", "c", "k", " ", "P", "r", "o", "p", "e", "r", "t", "i", "e", "s">>), Text(<<"S", "t", "u", "d", "i", "o">>), "Gumtree"),
   FilterListing("u5", Absent, Text(<<"H", "o", "m", "e", " ", "M", "a", "n", "a", "g", "e", "m", "e", "n", "t">>), Absent, "Gumtree"),
   FilterListing("u6", Absent, Absent, Text(<<"R", "o", "o", "m">>), "OpenRent"),
   FilterListing("u7", Absent, NoneValue, Text(<<"G", "a", "r", "d", "e", "n", " ", "f", "l", "a", "t">>), "Gumtree"),
   FilterListing("u8", Text(<<"P", "r", "i", "v", "a", "t", "e">>), Absent, Text(<<"S", "t", "u", "d", "i", "o">>), "Gumtree"),
   FilterListing("u9", NoneValue, Absent, Text(<<"F", "l", "a", "t">>), "Gumtree")}

\* the criteria the filter reads
FilterCriteria ==
  {[private_only |-> p, exclude_agents |-> e, keywords |-> k] :
     p \in BOOLEAN, e \in BOOLEAN,
     k \in {<<>>, << <<"G", "a", "r", "d", "e", "n">> >>}}
\* what the semantic check answers for each of n listings: always "none"
\* for a module without an oracle, and when there is no keyword to ask
\* about, else YES or NO for each
SemanticAnswers(n, keywords) ==
  IF keywords = <<>> THEN [1..n -> {"none"}]
  ELSE [1..n -> {"none"}] \cup [1..n -> {"YES", "NO"}]
\* largest list given to the filter
MaxFilterLen == 2

\* an adapter on which no search and no run is under way
Idle ==
  /\ AgentAdapter
  /\ ai_module = "Ready"
  /\ browser_page = "open"
  /\ max_pages_to_scrape = 1
  /\ user_criteria = Criteria("False")
  /\ NoAgent

InitFilter ==
  /\ Idle
  /\ pc = "f_start"
  /\ input_listings \in SeqsUpTo(FilterListings, MaxFilterLen)
  /\ filter_criteria \in FilterCriteria
  /\ processed_listings = <<>>
  /\ filter_raised = FALSE
  /\ NoPrice
  /\ NoCli

\* one call of process_listings
ProcessListingsCall ==
  /\ pc = "f_start"
  /\ \E semantic \in SemanticAnswers(Len(input_listings), filter_criteria.keywords) :
       LET r == ProcessListings(input_listings, filter_criteria, semantic, <<>>) IN
       /\ processed_listings' = r.listings
       /\ filter_raised' = r.raises
  /\ pc' = "f_done"
  /\ UNCHANGED <<search_vars, agent_vars, input_listings, filter_criteria, price_vars,
                 cli_vars>>

NextFilter == ProcessListingsCall
SpecFilter == InitFilter /\ [][NextFilter]_vars

\* C24: in process_listings private_only implies exclude-agents: whatever
\* exclude_agents is, when private_only is true every returned record has
\* is_private_landlord_guess = true and is_agent_flagged = false.
C24_PrivateOnlyImpliesNoAgents ==
  (pc = "f_done" /\ filter_criteria.private_only) =>
    \A i \in 1..Len(processed_listings) :
      /\ processed_listings[i].is_private_landlord_guess
      /\ ~processed_listings[i].is_agent_flagged
\* private_only without exclude_agents, two listings given: an agent and
\* a private advertiser; the private advertiser alone is returned
C24_Witness ==
  /\ pc = "f_done" /\ filter_criteria.private_only /\ ~filter_criteria.exclude_agents
  /\ filter_criteria.keywords = <<>>
  /\ Len(input_listings) = 2
  /\ input_listings[1].url = "u1" /\ input_listings[2].url = "u2"
  /\ Len(processed_listings) = 1 /\ processed_listings[1].url = "u2"

\* a record that exclude_agents removes
ExcludedAgent(r) == r.is_agent_flagged /\ ~r.is_private_landlord_guess
NotExcludedAgent(r) == ~ExcludedAgent(r)
\* what process_listings returns for the same listings when the criteria
\* ask for nothing: every listing with its flags
Unfiltered ==
  ProcessListings(input_listings,
                  [private_only |-> FALSE, exclude_agents |-> FALSE, keywords |-> <<>>],
                  [i \in 1..Len(input_listings) |-> "none"], <<>>).listings

\* C25: with exclude_agents true, private_only false and no keywords the
\* list returned is the input list, in order, each record with its two
\* flags, minus the records that are agent-flagged and not a
\* private-landlord guess; nothing else is removed and nothing is added.
C25_ExcludeAgentsExactly ==
  (/\ pc = "f_done" /\ ~filter_raised
   /\ filter_criteria.exclude_agents /\ ~filter_criteria.private_only
   /\ filter_criteria.keywords = <<>>) =>
    /\ [i \in 1..Len(Unfiltered) |-> WithoutFlags(Unfiltered[i])] = input_listings
    /\ processed_listings = SelectSeq(Unfiltered, NotExcludedAgent)
\* an agent by its name, removed, before a Gumtree listing without
\* signals, kept
C25_Witness ==
  /\ pc = "f_done" /\ ~filter_raised
  /\ filter_criteria.exclude_agents /\ ~filter_criteria.private_only
  /\ filter_criteria.keywords = <<>>
  /\ Len(input_listings) = 2
  /\ input_listings[1].url = "u4" /\ input_listings[2].url = "u8"
  /\ Len(processed_listings) = 1 /\ processed_listings[1].url = "u8"

(***************************************************************************)
(* Price texts: GumtreeScraper._normalize_price and parse_price of the     *)
(* extraction module.                                                      *)
(***************************************************************************)
IsDigit(c) == \E i \in 1..Len(DigitChars) : DigitChars[i] = c
DigitValue(c) == (CHOOSE i \in 1..Len(DigitChars) : DigitChars[i] = c) - 1
RECURSIVE ParseInt(_)
\* int(s) for a text of digits
ParseInt(s) ==
  IF Len(s) = 0 THEN 0
  ELSE 10 * ParseInt(SubSeq(s, 1, Len(s) - 1)) + DigitValue(s[Len(s)])
RECURSIVE Decimal(_)
\* str(n)
Decimal(n) ==
  IF n < 10 THEN <<DigitChars[n + 1]>>
  ELSE Decimal(n \div 10) \o <<DigitChars[(n % 10) + 1]>>
RECURSIVE Without(_, _)
\* s.replace(c, "") for one character c
Without(s, c) ==
  IF Len(s) = 0 THEN <<>>
  ELSE (IF Head(s) = c THEN <<>> ELSE <<Head(s)>>) \o Without(Tail(s), c)
\* the longest run of digits that starts at position i of s
DigitRun(s, i) ==
  LET stops == {j \in i..Len(s) : ~IsDigit(s[j])}
      last == IF stops = {} THEN Len(s) ELSE SetMin(stops) - 1
  IN SubSeq(s, i, last)
\* s.split(c)[0]
BeforeFirst(s, c) ==
  LET at == {i \in 1..Len(s) : s[i] = c} IN
  IF at = {} THEN s ELSE SubSeq(s, 1, SetMin(at) - 1)
\* what re.sub(r"[^\d.]", "", s) keeps
DigitOrPoint(c) == IsDigit(c) \/ c = "."

\* round(num / den) of Python 3: to the nearest integer, a half to the even
\* one
Round(num, den) ==
  LET q == num \div den
      r == num % den
  IN IF 2 * r < den THEN q
     ELSE IF 2 * r > den THEN q + 1
     ELSE IF q % 2 = 0 THEN q ELSE q + 1

\* the two characters that open the pattern of gumtree_scraper.py 322 as
\* the source file spells it (U+00C2 U+00A3)
PricePatternPrefix == <<"Â", "£">>
\* gumtree_scraper.py 316-343: re.search of the prefix followed by digits in
\* the text without commas, then the period by the unit
NormalizePrice(text) ==
  LET plain == Without(text, ",")
      n == Len(PricePatternPrefix)
      starts == {i \in 1..(Len(plain) - n) :
                   /\ SubSeq(plain, i, i + n - 1) = PricePatternPrefix
                   /\ IsDigit(plain[i + n])}
      low == Lower(text)
  IN
  IF Len(text) = 0 \/ starts = {} THEN NonePrice
  ELSE LET value == ParseInt(DigitRun(plain, SetMin(starts) + n)) IN
       IF Contains(low, <<"p", "w">>) \/ Contains(low, <<"w", "e", "e", "k">>)
         THEN [given |-> TRUE, monthly_price |-> Round(value * 52, 12),
               period |-> "weekly", value |-> value]
         ELSE [given |-> TRUE, monthly_price |-> Round(value, 1),
               period |-> "monthly", value |-> value]

\* extraction_module.py 7-15: the number float() reads from the first word
\* of the text stripped of everything but digits and points, as its digits
\* before the point and its digits after it; None when float() raises
ParsePrice(text) ==
  LET word == BeforeFirst(BeforeFirst(text, "/"), " ")
      cleaned == SelectSeq(word, DigitOrPoint)
      points == {i \in 1..Len(cleaned) : cleaned[i] = "."}
  IN
  IF Len(text) = 0 THEN NoneParsed
  ELSE IF Cardinality(points) > 1 \/ Len(cleaned) = Cardinality(points) THEN NoneParsed
  ELSE IF points = {}
    THEN [given |-> TRUE, units |-> ParseInt(cleaned), decimals |-> <<>>]
  ELSE LET at == SetMin(points) IN
       [given |-> TRUE, units |-> ParseInt(SubSeq(cleaned, 1, at - 1)),
        decimals |-> SubSeq(cleaned, at + 1, Len(cleaned))]

\* largest amount written into a price text
MaxAmount == 1500
\* the units after the amount: the weekly ones, the monthly ones, none
WeeklyUnits == {<<" ", "p", "w">>, <<"p", "w">>, <<" ", "p", "e", "r", " ", "w", "e", "e", "k">>, <<" ", "P", "W">>}
OtherUnits == {<<" ", "p", "c", "m">>, <<" ", "p", "e", "r", " ", "m", "o", "n", "t", "h">>, <<"p", "m">>, <<" ", "p", "/", "w">>, <<>>}
\* the amount with a comma before its last three digits
WithSeparator(n) ==
  LET d == Decimal(n) IN
  SubSeq(d, 1, Len(d) - 3) \o <<",">> \o SubSeq(d, Len(d) - 2, Len(d))
\* what stands before the amount: the pound sign, or the pound sign as a
\* page in the wrong encoding shows it
PoundSign == <<"£">>
Signs == {PoundSign, PricePatternPrefix}
\* the sign, the amount, the unit
WritePrice(w) ==
  w.sign \o (IF w.separator THEN WithSeparator(w.amount) ELSE Decimal(w.amount))
         \o w.unit

InitPrice ==
  /\ Idle
  /\ NoFilter
  /\ pc = "p_start"
  /\ price_written \in
       {[sign |-> g, amount |-> a, separator |-> sep, unit |-> u] :
          g \in Signs, a \in 1..MaxAmount, sep \in BOOLEAN,
          u \in WeeklyUnits \cup OtherUnits}
  /\ price_written.separator => price_written.amount >= 1000
  /\ price_text = WritePrice(price_written)
  /\ normalized_price = NonePrice
  /\ parsed_price = NoneParsed
  /\ NoCli

\* gumtree_scraper.py 218: _normalize_price on the price text
NormalizePriceCall ==
  /\ pc = "p_start"
  /\ normalized_price' = NormalizePrice(price_text)
  /\ pc' = "p_normalized"
  /\ UNCHANGED <<search_vars, agent_vars, filter_vars, price_written, price_text,
                 parsed_price, cli_vars>>

\* extraction_module.py 109: parse_price on the price text
ParsePriceCall ==
  /\ pc = "p_normalized"
  /\ parsed_price' = ParsePrice(price_text)
  /\ pc' = "p_done"
  /\ UNCHANGED <<search_vars, agent_vars, filter_vars, price_written, price_text,
                 normalized_price, cli_vars>>

NextPrice == NormalizePriceCall \/ ParsePriceCall
SpecPrice == InitPrice /\ [][NextPrice]_vars

\* m is the integer nearest to num / den
Nearest(m, num, den) == 2 * (m * den - num) <= den /\ 2 * (num - m * den) <= den

\* C26: _normalize_price follows one fixed rule on a price text that opens
\* with a pound amount: with a weekly unit (pw, week) the monthly price is
\* the amount times 52/12 rounded to the nearest integer and the period is
\* weekly, with any other unit or none it is the amount and the period is
\* monthly; a thousands separator changes nothing.
C26_OneFixedPriceRule ==
  (pc = "p_done" /\ price_written.sign = PoundSign) =>
    /\ normalized_price.given
    /\ normalized_price.value = price_written.amount
    /\ IF price_written.unit \in WeeklyUnits
         THEN /\ normalized_price.period = "weekly"
              /\ Nearest(normalized_price.monthly_price, price_written.amount * 52, 12)
         ELSE /\ normalized_price.period = "monthly"
              /\ normalized_price.monthly_price = price_written.amount

(***************************************************************************)
(* The command line (input_module.py): get_user_criteria_and_run_agent is  *)
(* a click command run as the program's entry point.                       *)
(***************************************************************************)
\* largest price given on the command line
MaxCliPrice == 9
Given(v) == [given |-> TRUE, value |-> v]
PriceOptions == {NotGiven} \cup {Given(v) : v \in 0..MaxCliPrice}
\* the exit status of a click command whose function returns
ExitReturned == 0
\* the exit status click gives to a missing required option
ExitUsage == 2
\* the exit status of an uncaught exception
ExitException == 1

\* input_module.py 34: the combination the command refuses
MinAboveMax(lo, hi) == lo.given /\ hi.given /\ lo.value > hi.value

InitCli ==
  /\ Idle
  /\ NoFilter
  /\ NoPrice
  /\ pc = "c_start"
  /\ location_given \in BOOLEAN
  /\ price_min \in PriceOptions
  /\ price_max \in PriceOptions
  /\ agent_invoked = FALSE
  /\ exited = FALSE
  /\ exit_status = 0

\* input_module.py 15-55: click parses the options (a required one
\* missing ends the process), the command refuses min > max by returning,
\* else it builds the criteria and calls run_agent_with_criteria
GetUserCriteriaAndRunAgent ==
  /\ pc = "c_start"
  /\ IF ~location_given
       THEN /\ pc' = "c_exit" /\ exited' = TRUE /\ exit_status' = ExitUsage
            /\ UNCHANGED agent_invoked
     ELSE IF MinAboveMax(price_min, price_max)
       THEN /\ pc' = "c_exit" /\ exited' = TRUE /\ exit_status' = ExitReturned
            /\ UNCHANGED agent_invoked
     ELSE /\ pc' = "c_agent" /\ agent_invoked' = TRUE
          /\ UNCHANGED <<exited, exit_status>>
  /\ UNCHANGED <<search_vars, agent_vars, filter_vars, price_vars, location_given,
                 price_min, price_max>>

\* input_module.py 54-55: asyncio.run returns, or the run raises (the
\* browser cannot be launched, main.py 25-43)
AgentRunEnds ==
  /\ pc = "c_agent"
  /\ \E raises \in BOOLEAN :
       exit_status' = (IF raises THEN ExitException ELSE ExitReturned)
  /\ exited' = TRUE
  /\ pc' = "c_exit"
  /\ UNCHANGED <<search_vars, agent_vars, filter_vars, price_vars, location_given,
                 price_min, price_max, agent_invoked>>

NextCli == GetUserCriteriaAndRunAgent \/ AgentRunEnds
SpecCli == InitCli /\ [][NextCli]_vars

\* C27: a command line with price_min > price_max is rejected before the
\* core runs: run_agent_with_criteria is never invoked and the process ends
\* with a non-zero exit status.
C27_MinAboveMaxRejected ==
  (location_given /\ MinAboveMax(price_min, price_max)) =>
    /\ ~agent_invoked
    /\ exited => exit_status # 0

\* C28: the search run per expanded location (GumtreeScraper.search_properties)
\* is a query refinement loop: a first page classified zero_results, error or
\* unknown with attempts remaining makes the search consult the oracle and
\* retry, so a Gumtree search that ended on such a first page with an oracle
\* and max_retries > 1 has recorded the attempt and asked the oracle.
C28_GumtreeRefines ==
  (GumtreeSearch /\ pc = "finished" /\ page_num = 1 /\ ai_module = "Ready"
     /\ search_outcome \in Refinable /\ max_retries > 1)
    => oracle_calls >= 1 /\ Len(attempt_history) >= 1

\* C29: a malformed oracle response (not JSON, JSON without an action, JSON
\* that is not an object) is treated as no suggestion.  To the transform call
\* it means the raw criteria are used: a search that can open its page never
\* leaves search_properties by an exception, whatever the oracle answered.
\* To the refine call it means the loop takes its no-suggestion branch: it
\* stops without recording another attempt.
C29_MalformedIsNoSuggestion ==
  /\ [][pc = "start" /\ (browser_page = "open" \/ context) => pc' # "raised"]_vars
  /\ [][pc = "consult" /\ Len(oracle_log') = Len(oracle_log) + 1
          /\ Last(oracle_log') = NonObjectAnswer
          => pc' = "finished" /\ attempt_history' = attempt_history]_vars

\* C30: when navigation to a results page has failed on every allowed retry,
\* the failure surfaces as an error outcome fed back into the refinement
\* loop: the step that exhausts the retries (the single goto of the base
\* loop, the last of max_nav_retries gotos of the Gumtree page loop) does not
\* end the search by an exception and records an attempt with outcome error
\* in the history the oracle is shown.
C30_NavigationFailureIsErrorOutcome ==
  /\ [][BaseLoop /\ pc = "navigate" /\ page' = <<>>
          => /\ pc' # "raised"
             /\ Len(attempt_history') = Len(attempt_history) + 1
             /\ Last(attempt_history').outcome = "error"]_vars
  /\ [][GumtreeSearch /\ pc = "g_navigate" /\ nav_attempt = max_nav_retries - 1
          /\ page' = <<>>
          => /\ pc' # "raised"
             /\ Len(attempt_history') = Len(attempt_history) + 1
             /\ Last(attempt_history').outcome = "error"]_vars

\* C31: for every adapter's classifier an indicator that is in the page but
\* not visible never produces an indicator-based outcome: with no visible
\* blocking element the page is not classified blocked or captcha_detected,
\* and with no visible no-results element a zero_results outcome is the one
\* the same page gives without its no-results elements.
C31_HiddenIndicatorIgnored ==
  (pc = "classified" /\ ~page[1].domFails) =>
    /\ ~AnyVisible(page[1].blockEls)
         => search_outcome \notin {"blocked", "captcha_detected"}
    /\ (~AnyVisible(page[1].zeroEls) /\ search_outcome = "zero_results")
         => CheckSearchOutcome(site_name, selectors,
                               [page[1] EXCEPT !.zeroEls = <<>>]) = "zero_results"

\* goto calls of the page loop made for page n (the first goto of a search
\* is the discovery navigation of _detect_total_pages)
LoopVisits(n) == Cardinality({j \in 2..Len(visited) : visited[j] = n})

\* C32 (as stated): in GumtreeScraper.search_properties each results page is
\* navigated at most 3 times.
C32_AtMostThreeNavigations ==
  GumtreeSearch => \A n \in Range(visited) : TimesVisited(n) <= max_nav_retries
\* C32 (amended): the page loop navigates each results page at most 3 times
\* (page 1 once more by the discovery pass before the loop); a retry is made
\* only after the backoff delay, a successful navigation goes on to the
\* classification of that page, and the count of gotos made for the current
\* page is the retry index, so the third failure is the last goto to it.
C32_PageLoopRetryBound ==
  GumtreeSearch =>
    /\ \A n \in Range(visited) :
         /\ LoopVisits(n) <= max_nav_retries
         /\ TimesVisited(n) <= (IF n = 1 THEN max_nav_retries + 1 ELSE max_nav_retries)
    /\ pc = "g_navigate" =>
         /\ LoopVisits(page_num) = nav_attempt
         /\ nav_attempt < max_nav_retries
         /\ (nav_attempt > 0 => slept)
    /\ pc \in {"g_classify", "g_parse"} =>
         /\ Last(visited) = page_num
         /\ page # <<>>
    /\ (pc = "finished" /\ Len(visited) >= 2) => Last(visited) <= page_num
\* page 1 failed three times in the loop after the discovery navigation, the
\* search went on to page 2 and loaded it at the second goto
C32_Witness ==
  /\ GumtreeSearch /\ visited = <<1, 1, 1, 1, 2, 2>>
  /\ pc = "g_classify" /\ page_num = 2

\* C33: in GumtreeScraper.search_properties a delay always elapses between
\* the last navigation to results page k and the first navigation to results
\* page k+1, also when page k failed with an exception: the loop never stands
\* before the first goto of a later page without a sleep since the last goto.
C33_DelayBetweenPages ==
  (GumtreeSearch /\ pc = "g_navigate" /\ nav_attempt = 0 /\ page_num > 1) => slept

(***************************************************************************)
(* The page extractors alone: one call of _parse_initial_listings of every *)
(* adapter on every page of containers within the bounds.                  *)
(***************************************************************************)
\* a container: with or without link href, its first description span
\* (private, agency, or none), with or without a price or title text, and
\* its monthly price (0: no price element)
ExtractItems ==
  {Item(u, p, t, n) : u \in {"u1", Null}, p \in Posters \cup {Null},
                      t \in BOOLEAN, n \in {0, 900, 2500}}
ExtractPages ==
  {MkPage(<<>>, <<>>, it, "Results", FALSE) : it \in SeqsUpTo(ExtractItems, MaxItems)}
\* self.current_price_max of the Gumtree adapter (0: not set)
PriceCaps == {0, 1000}

InitExtract ==
  /\ site_name \in Adapters
  /\ site_profile = TRUE
  /\ selectors = (IF site_name = "Gumtree" THEN GumtreeDefaultSelectors ELSE FullSelectors)
  /\ ai_module = "Ready"
  /\ browser_page = "open"
  /\ context = TRUE
  /\ max_retries = DefaultMaxRetries
  /\ max_pages_to_scrape = 1
  /\ user_criteria = Criteria("False")
  /\ InitLocals
  /\ NoAgent
  /\ NoSide

\* one call of _parse_initial_listings on a loaded page; the Gumtree
\* extractor reads the two filter attributes search_properties has set
ParsePage ==
  /\ pc = "start"
  /\ \E pg \in ExtractPages, private \in BOOLEAN, cap \in PriceCaps :
       /\ (site_name # "Gumtree" => ~private /\ cap = 0)
       /\ page' = <<pg>>
       /\ private_only_requested' = private
       /\ current_price_max' = cap
       /\ IF site_name = "Gumtree"
            THEN /\ all_listings' =
                      GumtreeParseInitialListings(selectors, pg, private, cap)
                 /\ UNCHANGED all_found_listings
            ELSE /\ all_found_listings' = ParseInitialListings(site_name, pg)
                 /\ UNCHANGED all_listings
  /\ pc' = "extracted"
  /\ UNCHANGED <<adapter_vars, browser_page, user_criteria, current_query_params,
                 same_object, attempt, search_url, search_outcome, attempt_history,
                 refinement_suggestion, total_pages, page_num, nav_attempt,
                 seen_urls, navigations, oracle_obs, page_obs, agent_vars, side_vars>>

NextExtract == ParsePage
SpecExtract == InitExtract /\ [][NextExtract]_vars

\* the records the extractor returned
Returned == IF site_name = "Gumtree" THEN all_listings ELSE all_found_listings

\* C34: for every adapter's page extractor a container that has a url yields
\* a record even when every other field element is missing, and a container
\* without a url never yields one: the returned records are, in order, the
\* containers that have a url (no Gumtree filter being requested), and every
\* returned record has a url.
C34_UrlIsTheOnlyRequirement ==
  (pc = "extracted" /\ ~private_only_requested /\ current_price_max = 0) =>
    /\ Returned = SelectSeq2(page[1].items,
                     [i \in 1..Len(page[1].items) |-> page[1].items[i].url # Null])
    /\ \A i \in 1..Len(Returned) : Returned[i].url # Null

\* C35: in BaseScraper.search_properties the attempt history holds exactly
\* one entry per attempt started (each attempt makes one goto): it never holds
\* more entries than attempts, and between attempts and at the end it holds
\* as many, also when an exception was raised after the attempt's outcome had
\* been appended.
C35_OneEntryPerAttempt ==
  BaseLoop =>
    /\ Len(attempt_history) <= navigations
    /\ pc \in {"navigate", "finished"} => Len(attempt_history) = navigations

\* C36: in BaseScraper.search_properties the attempt history is append-only
\* and each entry's params is a snapshot: every step keeps the entries held
\* so far, in order, and after any edit entry i still holds the parameters
\* attempt i's url was built from.
C36_HistoryAppendOnlySnapshots ==
  /\ [][BaseLoop => /\ Len(attempt_history') >= Len(attempt_history)
                    /\ SubSeq(attempt_history', 1, Len(attempt_history))
                         = attempt_history]_vars
  /\ [](BaseLoop => \A i \in 1..Len(attempt_history) :
                      attempt_history[i].url =
                        ConstructSearchUrl(site_name, attempt_history[i].params, 1))
\* two attempts, the second made with edited parameters, both recorded
C36_Witness ==
  /\ BaseLoop /\ Len(attempt_history) = 2
  /\ attempt_history[1].params # attempt_history[2].params
  /\ attempt_history[1].url # attempt_history[2].url
  /\ current_query_params = attempt_history[2].params

\* C37: BaseScraper.search_properties never modifies the caller's
\* user_criteria mapping: no step of the loop changes it, whatever edits the
\* oracle suggests, also when transform handed back the caller's own mapping
\* because the oracle knows no profile of the site.
C37_CallerCriteriaUntouched ==
  [][BaseLoop => user_criteria' = user_criteria]_vars
\* the loop has removed price_max from its parameters on the oracle's
\* suggestion and the caller's mapping still holds it
C37_Witness ==
  /\ BaseLoop /\ pc = "finished" /\ oracle_calls >= 1
  /\ "price_max" \in DOMAIN user_criteria
  /\ "price_max" \notin DOMAIN current_query_params

\* C38: in GumtreeScraper.search_properties the end-of-results stop is
\* decided on the records left after the extractor's private_only and
\* price_max filters: an extraction of a page that has containers, all of
\* them filtered out, ends the search on that page without a further goto;
\* and every record held has poster type private when private_only was
\* requested and a price that is null or at most price_max when it is set.
C38_StopOnFilteredCount ==
  /\ [][(GumtreeSearch /\ pc = "g_parse" /\ Len(extracted') = Len(extracted) + 1
           /\ Len(page[1].items) > 0
           /\ GumtreeParseInitialListings(selectors, page[1], private_only_requested,
                                          current_price_max) = <<>>)
          => /\ pc' = "finished"
             /\ Last(extracted') = [page |-> page_num, count |-> 0]
             /\ visited' = visited /\ all_listings' = all_listings]_vars
  /\ [](GumtreeSearch =>
          \A i \in 1..Len(all_listings) :
            /\ private_only_requested => all_listings[i].poster = "private"
            /\ current_price_max > 0 =>
                 (all_listings[i].price = 0 \/ all_listings[i].price <= current_price_max))
\* bound 2, price_max 1000 and no private_only: page 1 holds an over-priced
\* container and one without link, nothing is left and page 2 is not visited
C38_Witness ==
  /\ GumtreeSearch /\ pc = "finished" /\ total_pages = 2
  /\ ~private_only_requested /\ current_price_max = 1000
  /\ page = <<[BarePage EXCEPT !.items = <<AgencyItem, NoLinkItem>>]>>
  /\ extracted = <<[page |-> 1, count |-> 0]>> /\ all_listings = <<>>
  /\ Last(visited) = 1

RECURSIVE IsSubSequence(_, _)
\* a is b with some elements left out, the order kept
IsSubSequence(a, b) ==
  IF Len(a) = 0 THEN TRUE
  ELSE IF Len(b) = 0 THEN FALSE
  ELSE IF Head(a) = Head(b) THEN IsSubSequence(Tail(a), Tail(b))
  ELSE IsSubSequence(a, Tail(b))

\* C39: FilteringModule.process_listings completes without raising for every
\* listing an adapter can emit, also when advertiser_type_snippet,
\* poster_name_snippet or title is null; the listings it returns are, without
\* their two flags, an order-preserving sub-list of the input, and none has
\* both is_agent_flagged and is_private_landlord_guess true.
C39_ProcessListingsTotal ==
  pc = "f_done" =>
    /\ ~filter_raised
    /\ IsSubSequence([i \in 1..Len(processed_listings) |->
                        WithoutFlags(processed_listings[i])], input_listings)
    /\ \A i \in 1..Len(processed_listings) :
         ~(processed_listings[i].is_agent_flagged
             /\ processed_listings[i].is_private_landlord_guess)

(***************************************************************************)
(* GumtreeScraper.search_properties alone, every step of it being taken    *)
(* in the end: each browser call returns or fails (the gotos carry a       *)
(* timeout, lines 348 and 436), and the sleeps are finite.                 *)
(***************************************************************************)
\* the adapter as run_agent_with_criteria builds it: with an oracle and a
\* browser context
InitGumtree == Init /\ site_name = "Gumtree" /\ ai_module = "Ready" /\ context
SpecGumtree == InitGumtree /\ [][GumtreeNext]_vars /\ WF_vars(GumtreeNext)

\* the call has returned or raised
SearchEnded ==
  pc \in {"finished", "raised", "returned_uninit", "returned_notransform"}

\* C40: GumtreeScraper.search_properties always terminates, provided each
\* browser call returns or fails: with detected bound B it makes at most one
\* discovery navigation plus 3 x B page navigations, whatever the pattern of
\* navigation failures, classifier outcomes and extraction results.
C40_SearchTerminates ==
  /\ <>SearchEnded
  /\ [](navigations <= 1 + max_nav_retries * total_pages)
  /\ [](pc \notin {"start", "detect"} /\ ~SearchEnded =>
          /\ page_num \in 1..total_pages
          /\ nav_attempt < max_nav_retries
          /\ navigations <= 1 + max_nav_retries * (page_num - 1) + nav_attempt + 1)
\* every page of two failed three times: seven navigations, then the end
C40_Witness ==
  /\ GumtreeSearch /\ pc = "finished" /\ total_pages = 2
  /\ navigations = 1 + max_nav_retries * 2
  /\ visited = <<1, 1, 1, 1, 2, 2, 2>>

====
